---- MODULE Spec2Model ----
(***************************************************************************)
(* Resilience utilities of the deBridge data-provider plugin:              *)
(*   utils/cache.ts : TTLCache, RequestDeduplicator, CircuitBreaker        *)
(*   utils/http.ts  : HttpUtils.fetchWithRetry                             *)
(* Each component is a state machine over its own variables; a component   *)
(* specification leaves the variables of the other components untouched.   *)
(***************************************************************************)
EXTENDS Integers, Sequences, FiniteSets, TLC

VARIABLES
  now,                \* Date.now(), in clock ticks
  \* ---- CircuitBreaker (cache.ts:127-210)
  failureThreshold,   \* constructor parameter
  cooldownMs,         \* constructor parameter
  successThreshold,   \* constructor parameter (default 2)
  state,              \* 'CLOSED' | 'OPEN' | 'HALF_OPEN'
  failureCount,
  successCount,
  nextAttemptTime,
  calls,              \* execute() calls: caller -> [pc, outcome, admittedIn]
  consecFailures,     \* history: failed calls settled since the last success/reset
  trialSuccesses,     \* history: successes settled in HALF_OPEN since it was entered
  \* ---- RequestDeduplicator (cache.ts:88-121)
  pending,            \* Map<string, Promise>: key -> operation in flight, or NoOp
  ops,                \* operations fn() invoked so far: id -> [key, status]
  nextOp,             \* id the next invoked operation gets
  clients,            \* deduplicate() calls: client -> [pc, key, op, result]
  \* ---- TTLCache (cache.ts:5-82)
  ttlMs,              \* constructor parameter
  maxSize,            \* constructor parameter
  cache,              \* Map<K, {value, expiresAt}> as the sequence of its entries
                      \* in iteration (= insertion) order; an entry also records
                      \* setAt, the time of the set that wrote it (history)
  ret,                \* the last cache call: [op, key, result, evicted], result
                      \* what it returned (for set: the value written), evicted
                      \* the key that a set removed to make room or that a
                      \* get/has removed as expired (history)
  insertOrder,        \* history: keys in the map, in the order they were added
  \* ---- HttpUtils (http.ts:7-137)
  maxConcurrent,      \* limiter option: jobs running at once
  limiterQueue,       \* limiter: scheduled jobs not started yet, oldest first
  limiterRunning,     \* limiter: jobs started and not finished
  limiterReady,       \* limiter: minTime has passed since the last job start
  reqs,               \* fetchWithRetry calls: request -> [pc, maxRetries, attempt,
                      \* lastError, result, attempts, sleeps]; attempts counts
                      \* the fetch() calls made, sleeps the sleeps taken (history)
  \* ---- RateLimiter (service.ts, part_006:466-500)
  maxTokens,          \* constructor parameter
  waitTime,           \* (1 / refillRate) * 1000: clock ticks per token
  tokens,             \* this.tokens, in units of 1/waitTime token (one per tick)
  lastRefill,         \* this.lastRefill
  acquirers,          \* acquire() calls: caller -> [pc, wakeAt]
  acquired,           \* history: the times at which acquirers' calls returned
  drainedAt,          \* history: when the last wait of an acquirer ended, if no
                      \* acquirer has called acquire() since; otherwise NoTime
  \* ---- DataProviderService (service.ts, part_006:638-1599)
  volumeCache,        \* this.volumeCache: NoVolumeCache or [data, fetchedAt]
  volCalls,           \* getVolumes() calls: call -> [pc, windows, wakeAt]
  volRet,             \* the last getVolumes() call that returned: [windows, data,
                      \* result, fetched], data what fetchDefiLlamaVolumes gave
                      \* it and fetched how its fetch ended, "cache" when
                      \* volumeCache answered instead (history)
  tokenListCache,     \* this.tokenListCache: chainId -> NoTokenList or [assets,
                      \* fetchedAt]
  assetCalls,         \* getListedAssets() calls: call -> [pc, chains, wakeAt,
                      \* assets, failed, expected]; chains the chain ids still to
                      \* go through, the first one being fetched; failed the
                      \* chains whose fetch failed and expected the (chainId,
                      \* assetId) pairs the token lists held (history)
  assetRet,           \* the last getListedAssets() call that returned: [assets,
                      \* failed, expected] (history)
  liqRet,             \* the last route getLiquidityDepth() went through: [quote,
                      \* entry, last], quote what fetchQuoteWithRetry returned,
                      \* entry the LiquidityDepth entry pushed or NoEntry, last
                      \* what its last attempt ended in (history)
  liqCalls,           \* getLiquidityDepth() calls: call -> [pc, routes, attempt,
                      \* wakeAt, liquidity, quoted, sent, acquires, last];
                      \* routes the number of routes still to go through,
                      \* attempt the loop variable of fetchQuoteWithRetry,
                      \* liquidity the entries pushed; quoted the number of
                      \* routes fetchQuoteWithRetry returned a payload for;
                      \* sent and acquires the requests sent and the
                      \* rateLimiter.acquire() calls made by the current
                      \* fetchQuoteWithRetry, last what its last settled
                      \* attempt ended in (history)
  liqList,            \* the last getLiquidityDepth() call that returned:
                      \* [liquidity, quoted] (history)
  rateCalls,          \* getRates() calls: call -> [pc, n, notionals, k, rates,
                      \* obtained, op, quote]; n routes and the notionals are
                      \* the arguments, k the (route, notional) pair the loops
                      \* are at, op the operation awaited, quote what the await
                      \* gave; obtained the pairs whose quote, cached or
                      \* fetched, was a well-formed one (history)
  rateRet,            \* the getRates() call that returned last, if no call has
                      \* suspended since: [n, notionals, rates, obtained];
                      \* otherwise NoRateRet (history)
  snap,               \* the getSnapshot() effect in progress: [pc, request]
  snapRet,            \* how the last getSnapshot() effect ended, if none has
                      \* started since: [status, error, request, volumes,
                      \* rates, liquidity, listedAssets, upstream], and
                      \* routeIntelligence when the snapshot has the key;
                      \* upstream what the sections had from their sources
                      \* (history)
  probe,              \* the getRouteIntelligence() call in progress: [pc,
                      \* routes, size, attempt, wakeAt, quotes, intelligence];
                      \* routes the number of routes still to go through, size
                      \* the position in probeSizesUsd, attempt the loop
                      \* variable of fetchQuoteWithRetry, quotes the list
                      \* of the route being probed
  intelRet,           \* the last getRouteIntelligence() call that returned:
                      \* its list of records, each with the quotes of its
                      \* route (history)
  \* ---- DecimalUtils (decimal.ts, part_008:1-80)
  effRate,            \* the last calculateEffectiveRate() call: [fromAmount,
                      \* toAmount, fromDecimals, toDecimals, outcome]
  pairRet             \* the last (route, notional) iteration of getRates that
                      \* had a quote in hand: [quote, result] (history)

cbVars == <<failureThreshold, cooldownMs, successThreshold, state, failureCount,
            successCount, nextAttemptTime, calls, consecFailures, trialSuccesses>>

ddVars == <<pending, ops, nextOp, clients>>

cacheVars == <<ttlMs, maxSize, cache, ret, insertOrder>>

httpVars == <<maxConcurrent, limiterQueue, limiterRunning, limiterReady, reqs>>

rlVars == <<maxTokens, waitTime, tokens, lastRefill, acquirers, acquired, drainedAt>>

volVars == <<volumeCache, volCalls, volRet>>

liqVars == <<liqRet, liqCalls, liqList>>

assetVars == <<tokenListCache, assetCalls, assetRet>>

rateVars == <<rateCalls, rateRet>>

snapVars == <<snap, snapRet>>

intelVars == <<probe, intelRet>>

decVars == <<effRate, pairRet>>

svcVars == <<volVars, liqVars, assetVars, rateVars, snapVars, intelVars, decVars>>

\* The service's variables outside one of its methods.
notVolVars == <<liqVars, assetVars, rateVars, snapVars, intelVars, decVars>>

notLiqVars == <<volVars, assetVars, rateVars, snapVars, intelVars, decVars>>

notAssetVars == <<volVars, liqVars, rateVars, snapVars, intelVars, decVars>>

notRateVars == <<volVars, liqVars, assetVars, snapVars, intelVars, decVars>>

notIntelVars == <<volVars, liqVars, assetVars, rateVars, snapVars, decVars>>

notDecVars == <<now, cbVars, ddVars, cacheVars, httpVars, rlVars, volVars, liqVars,
                assetVars, rateVars, snapVars, intelVars>>

vars == <<now, cbVars, ddVars, cacheVars, httpVars, rlVars, svcVars>>

\* ---------------------------------------------------------------- bounds
MaxTime == 4
NumCallers == 2
MaxFailureThreshold == 2
MaxSuccessThreshold == 2
MaxCooldown == 2
MaxFailureCount == 3
NumClients == 3
NumKeys == 2
MaxOps == 2
NumCacheKeys == 3
NumValues == 1
MaxTtl == 1
MaxCacheTime == 2
MaxCacheSize == 2
NumRequests == 1
MaxRetries == 2
MaxMaxConcurrent == 2
NumAcquirers == 3
MaxTokens == 2
MaxWaitTime == 2
MaxRlTime == 2
MaxAcquires == 3
NumVolCalls == 1
MaxSvcTime == 1
MaxAmount == 3
NumAssetCalls == 1
MaxTokenList == 2
NumRateCalls == 2
NumLiqCalls == 1
MaxQuoteRoutes == 2

Callers == 1..NumCallers

\* ------------------------------------------------------------------ clock
\* Time passes between two calls, up to the bound of the specification.
Tick(limit) ==
  /\ now < limit
  /\ now' = now + 1
  /\ UNCHANGED <<rlVars, svcVars, cbVars, ddVars, cacheVars, httpVars>>

\* =============================================================== TTLCache
CacheKeys == 1..NumCacheKeys
Values == 1..NumValues
Absent == 0          \* undefined
NoKey == 0

\* new TTLCache(ttlMs, maxSize)
TTLCacheNew(ttl, size) ==
  /\ ttlMs = ttl
  /\ maxSize = size
  /\ cache = << >>
  /\ ret = [op |-> "new", key |-> NoKey, result |-> Absent, evicted |-> NoKey]
  /\ insertOrder = << >>

\* Map iteration helpers.
KeysOf(entries) == {entries[i].key : i \in 1..Len(entries)}
KeySeq(entries) == [i \in 1..Len(entries) |-> entries[i].key]
EntryOf(entries, k) == entries[CHOOSE i \in 1..Len(entries) : entries[i].key = k]
\* Map.delete(k)
Delete(entries, k) == SelectSeq(entries, LAMBDA e : e.key # k)
\* Map.set(k, e): an existing key keeps its place, a new key goes last.
Put(entries, e) ==
  IF e.key \in KeysOf(entries)
  THEN [i \in 1..Len(entries) |-> IF entries[i].key = e.key THEN e ELSE entries[i]]
  ELSE Append(entries, e)
\* now > entry.expiresAt
Expired(e) == now > e.expiresAt

\* Variant of AfterGet: the entry read is moved to the end of the map.
AfterGet_Touch(entries, k) ==
  IF k \in KeysOf(entries) /\ Expired(EntryOf(entries, k))
  THEN Delete(entries, k)
  ELSE IF k \in KeysOf(entries)
       THEN Append(Delete(entries, k), EntryOf(entries, k))
       ELSE entries

\* get(key): the map after the call (an expired entry is deleted).
AfterGet(entries, k) ==
  IF k \in KeysOf(entries) /\ Expired(EntryOf(entries, k))
  THEN Delete(entries, k)
  ELSE entries

\* Variant of GetResult: the expiry test is not made.
GetResult_NoExpiry(entries, k) ==
  IF k \notin KeysOf(entries) THEN Absent ELSE EntryOf(entries, k).value

\* get(key): the value returned.
GetResult(entries, k) ==
  IF k \notin KeysOf(entries) THEN Absent
  ELSE IF Expired(EntryOf(entries, k)) THEN Absent
  ELSE EntryOf(entries, k).value

\* Variant of EvictIfFull: an entry is removed only above maxSize.
EvictIfFull_Late(entries) ==
  IF Len(entries) > maxSize /\ Len(entries) > 0
  THEN Tail(entries)
  ELSE entries

\* Variant of EvictIfFull: the newest entry is removed.
EvictIfFull_Newest(entries) ==
  IF Len(entries) >= maxSize /\ Len(entries) > 0
  THEN SubSeq(entries, 1, Len(entries) - 1)
  ELSE entries

\* set(key, value), first part: at maxSize the first key of the map is deleted.
EvictIfFull(entries) ==
  IF Len(entries) >= maxSize /\ Len(entries) > 0
  THEN Tail(entries)
  ELSE entries

\* History kept beside the map: keys still present keep their order, a key
\* that is not present any more is dropped, a key that was added goes last.
Track(order, before, after) ==
  LET kept == SelectSeq(order, LAMBDA k : k \in before /\ k \in after)
      added == after \ before
  IN  IF added = {} THEN kept ELSE Append(kept, CHOOSE k \in added : TRUE)

get(k) ==
  /\ cache' = AfterGet(cache, k)
  /\ ret' = [op |-> "get", key |-> k, result |-> GetResult(cache, k),
             evicted |-> IF k \in KeysOf(cache) \ KeysOf(cache') THEN k ELSE NoKey]
  /\ insertOrder' = Track(insertOrder, KeysOf(cache), KeysOf(cache'))
  /\ UNCHANGED <<rlVars, svcVars, now, cbVars, ddVars, httpVars, ttlMs, maxSize>>

\* has(key): this.get(key) !== undefined
has(k) ==
  /\ cache' = AfterGet(cache, k)
  /\ ret' = [op |-> "has", key |-> k,
             result |-> IF GetResult(cache, k) # Absent THEN 1 ELSE 0,
             evicted |-> IF k \in KeysOf(cache) \ KeysOf(cache') THEN k ELSE NoKey]
  /\ insertOrder' = Track(insertOrder, KeysOf(cache), KeysOf(cache'))
  /\ UNCHANGED <<rlVars, svcVars, now, cbVars, ddVars, httpVars, ttlMs, maxSize>>

set(k, v) ==
  LET kept == EvictIfFull(cache)
      evicted == KeysOf(cache) \ KeysOf(kept)
  IN  /\ cache' = Put(kept, [key |-> k, value |-> v, expiresAt |-> now + ttlMs,
                               setAt |-> now])
      /\ ret' = [op |-> "set", key |-> k, result |-> v,
                 evicted |-> IF evicted = {} THEN NoKey ELSE CHOOSE j \in evicted : TRUE]
      /\ insertOrder' = Track(Track(insertOrder, KeysOf(cache), KeysOf(kept)),
                              KeysOf(kept), KeysOf(cache'))
      /\ UNCHANGED <<rlVars, svcVars, now, cbVars, ddVars, httpVars, ttlMs, maxSize>>

\* clear(): this.cache.clear()   (named cacheClear: `clear' is the deduplicator's)
cacheClear ==
  /\ cache' = << >>
  /\ ret' = [op |-> "clear", key |-> NoKey, result |-> Absent, evicted |-> NoKey]
  /\ insertOrder' = << >>
  /\ UNCHANGED <<rlVars, svcVars, now, cbVars, ddVars, httpVars, ttlMs, maxSize>>

\* stats(): expired entries are deleted, then the size is reported.
stats ==
  /\ cache' = SelectSeq(cache, LAMBDA e : ~Expired(e))
  /\ ret' = [op |-> "stats", key |-> NoKey, result |-> Len(cache'), evicted |-> NoKey]
  /\ insertOrder' = SelectSeq(insertOrder, LAMBDA k : k \in KeysOf(cache'))
  /\ UNCHANGED <<rlVars, svcVars, now, cbVars, ddVars, httpVars, ttlMs, maxSize>>

\* ==================================================== RequestDeduplicator
Keys == 1..NumKeys
Clients == 1..NumClients
OpIds == 1..MaxOps
NoOp == 0

IdleClient == [pc |-> "idle", key |-> 0, op |-> NoOp, result |-> "none"]

\* private pending = new Map<string, Promise<T>>()
RequestDeduplicatorInit ==
  /\ pending = [k \in Keys |-> NoOp]
  /\ ops = [o \in OpIds |-> [key |-> 0, status |-> "unused"]]
  /\ nextOp = 1
  /\ clients = [c \in Clients |-> IdleClient]

\* pendingCount(): this.pending.size
pendingCount == Cardinality({k \in Keys : pending[k] # NoOp})

\* Variant of deduplicate: the pending map is not consulted.
deduplicate_NoReuse(c, k) ==
  /\ clients[c].pc = "idle"
  /\ nextOp <= MaxOps
  /\ ops' = [ops EXCEPT ![nextOp] = [key |-> k, status |-> "running"]]
  /\ pending' = [pending EXCEPT ![k] = nextOp]
  /\ clients' = [clients EXCEPT ![c] = [pc |-> "waiting", key |-> k,
                                        op |-> nextOp, result |-> "none"]]
  /\ nextOp' = nextOp + 1
  /\ UNCHANGED <<rlVars, svcVars, now, cbVars, cacheVars, httpVars>>

\* deduplicate(key, fn): runs without suspension up to its return. Either the
\* caller gets the promise stored under key, or fn() is invoked, its promise
\* (with the finally handler attached) is stored under key and returned.
deduplicate(c, k) ==
  /\ clients[c].pc = "idle"
  /\ IF pending[k] # NoOp
     THEN /\ clients' = [clients EXCEPT ![c] = [pc |-> "waiting", key |-> k,
                                                op |-> pending[k], result |-> "none"]]
          /\ UNCHANGED <<pending, ops, nextOp>>
     ELSE /\ nextOp <= MaxOps
          /\ ops' = [ops EXCEPT ![nextOp] = [key |-> k, status |-> "running"]]
          /\ pending' = [pending EXCEPT ![k] = nextOp]
          /\ clients' = [clients EXCEPT ![c] = [pc |-> "waiting", key |-> k,
                                                op |-> nextOp, result |-> "none"]]
          /\ nextOp' = nextOp + 1
  /\ UNCHANGED <<rlVars, svcVars, now, cbVars, cacheVars, httpVars>>

\* Variant of OperationSettles: the entry is deleted on success only
\* (a then handler in place of the finally handler).
OperationSettles_ThenOnly(o, outcome) ==
  /\ ops[o].status = "running"
  /\ ops' = [ops EXCEPT ![o].status = outcome]
  /\ pending' = IF outcome = "ok" THEN [pending EXCEPT ![ops[o].key] = NoOp] ELSE pending
  /\ UNCHANGED <<rlVars, svcVars, now, cbVars, cacheVars, httpVars, nextOp, clients>>

\* fn()'s promise settles: the finally handler runs this.pending.delete(key).
OperationSettles(o, outcome) ==
  /\ ops[o].status = "running"
  /\ ops' = [ops EXCEPT ![o].status = outcome]
  /\ pending' = [pending EXCEPT ![ops[o].key] = NoOp]
  /\ UNCHANGED <<rlVars, svcVars, now, cbVars, cacheVars, httpVars, nextOp, clients>>

\* A caller's await resumes with the outcome of the promise it was handed.
ClientResumes(c) ==
  /\ clients[c].pc = "waiting"
  /\ ops[clients[c].op].status \in {"ok", "err"}
  /\ clients' = [clients EXCEPT ![c].pc = "idle",
                                ![c].result = ops[clients[c].op].status]
  /\ UNCHANGED <<rlVars, svcVars, now, cbVars, cacheVars, httpVars, pending, ops, nextOp>>

\* clear(): this.pending.clear()
clear ==
  /\ pending' = [k \in Keys |-> NoOp]
  /\ UNCHANGED <<rlVars, svcVars, now, cbVars, cacheVars, httpVars, ops, nextOp, clients>>

\* ============================================================== HttpUtils
Requests == 1..NumRequests
NoResult == [status |-> "none", cause |-> "none", after |-> 0]
NewRequest == [pc |-> "idle", maxRetries |-> 0, attempt |-> 0, lastError |-> "none",
               result |-> NoResult, attempts |-> 0, sleeps |-> 0]

\* What one fetch() attempt can end in: a 2xx JSON body; HTTP 429 without and
\* with a Retry-After header; another 4xx; a 5xx; a 2xx whose content type is
\* not JSON; a 2xx whose body does not parse; a network error or the 30 s abort.
Outcomes == {"ok", "429", "429-retry-after", "4xx", "5xx", "not-json", "bad-json", "network"}

\* private static limiter = new Bottleneck({maxConcurrent, minTime})
LimiterNew(mc) ==
  /\ maxConcurrent = mc
  /\ limiterQueue = << >>
  /\ limiterRunning = {}
  /\ limiterReady = TRUE
  /\ reqs = [r \in Requests |-> NewRequest]

\* fetchWithRetry(url, options, maxRetries, baseDelay), up to limiter.schedule:
\* the argument checks throw at once; a valid call is queued in the limiter.
fetchWithRetry(r, url, mr, bd) ==
  /\ reqs[r].pc = "idle"
  /\ IF url = "empty"
     THEN /\ reqs' = [reqs EXCEPT ![r].pc = "done", ![r].maxRetries = mr,
                        ![r].result = [status |-> "rejected",
                                       cause |-> "Valid URL is required", after |-> 0]]
          /\ UNCHANGED limiterQueue
     ELSE IF mr < 0 \/ bd < 0
     THEN /\ reqs' = [reqs EXCEPT ![r].pc = "done", ![r].maxRetries = mr,
                        ![r].result = [status |-> "rejected",
                                       cause |-> "must be non-negative", after |-> 0]]
          /\ UNCHANGED limiterQueue
     ELSE IF url = "malformed"
     THEN /\ reqs' = [reqs EXCEPT ![r].pc = "done", ![r].maxRetries = mr,
                        ![r].result = [status |-> "rejected",
                                       cause |-> "Invalid URL format", after |-> 0]]
          /\ UNCHANGED limiterQueue
     ELSE /\ reqs' = [reqs EXCEPT ![r].pc = "queued", ![r].maxRetries = mr]
          /\ limiterQueue' = Append(limiterQueue, r)
  /\ UNCHANGED <<rlVars, svcVars, now, cbVars, ddVars, cacheVars, maxConcurrent, limiterRunning,
                 limiterReady>>

\* The limiter starts the oldest queued job: the loop is entered with
\* attempt = 0 and the first fetch() is issued.
LimiterStarts(r) ==
  /\ limiterQueue # << >>
  /\ r = Head(limiterQueue)
  /\ Cardinality(limiterRunning) < maxConcurrent
  /\ limiterReady
  /\ limiterQueue' = Tail(limiterQueue)
  /\ limiterRunning' = limiterRunning \cup {r}
  /\ limiterReady' = FALSE
  /\ reqs' = [reqs EXCEPT ![r].pc = "fetching", ![r].attempt = 0, ![r].attempts = 1]
  /\ UNCHANGED <<rlVars, svcVars, now, cbVars, ddVars, cacheVars, maxConcurrent>>

\* minTime has passed since the limiter started a job.
MinTimePasses ==
  /\ ~limiterReady
  /\ limiterReady' = TRUE
  /\ UNCHANGED <<rlVars, svcVars, now, cbVars, ddVars, cacheVars, maxConcurrent, limiterQueue,
                 limiterRunning, reqs>>

\* Variant of MayRetry: one attempt too many.
MayRetry_OneMore(q) == q.attempt <= q.maxRetries

\* attempt < maxRetries: another attempt follows this one.
MayRetry(q) == q.attempt < q.maxRetries

\* The job's promise settles: the limiter frees its slot.
Finish(r, q, res) ==
  /\ reqs' = [reqs EXCEPT ![r] = [q EXCEPT !.pc = "done", !.result = res]]
  /\ limiterRunning' = limiterRunning \ {r}

\* Variant of InLoop: the loop runs once more.
InLoop_OneMore(q, a) == a <= q.maxRetries + 1

\* for (let attempt = 0; attempt <= maxRetries; attempt++)
InLoop(q, a) == a <= q.maxRetries

\* The statement after the loop: throw new Error(`Request failed after
\* ${maxRetries + 1} attempts: ${lastError!.message}`); reading .message of an
\* unassigned lastError throws a TypeError instead.
Exhausted(r, q) ==
  IF q.lastError = "none"
  THEN Finish(r, q, [status |-> "type-error", cause |-> "none", after |-> 0])
  ELSE Finish(r, q, [status |-> "failed", cause |-> q.lastError,
                     after |-> q.maxRetries + 1])

\* End of a loop iteration: attempt++, then the next fetch() or the loop exit.
NextIteration(r, q) ==
  IF InLoop(q, q.attempt + 1)
  THEN /\ reqs' = [reqs EXCEPT ![r] = [q EXCEPT !.pc = "fetching",
                                                !.attempt = q.attempt + 1,
                                                !.attempts = q.attempts + 1]]
       /\ UNCHANGED limiterRunning
  ELSE Exhausted(r, [q EXCEPT !.attempt = q.attempt + 1])

\* await this.sleep(delay)
Sleep(r, q) ==
  /\ reqs' = [reqs EXCEPT ![r] = [q EXCEPT !.pc = "sleeping", !.sleeps = q.sleeps + 1]]
  /\ UNCHANGED limiterRunning

\* The fetch() of the current attempt settles with outcome o, and the loop body
\* runs to its next suspension (a sleep) or to the end of the call.
AttemptSettles(r, o) ==
  LET q == reqs[r]
      e == [q EXCEPT !.lastError = o]     \* the catch block assigns lastError
  IN
  /\ q.pc = "fetching"
  /\ IF o = "ok"
     THEN Finish(r, q, [status |-> "ok", cause |-> "none", after |-> q.attempt + 1])
     ELSE IF o \in {"429", "429-retry-after"} /\ MayRetry(q)
     THEN Sleep(r, q)                     \* sleep, then continue: no lastError
     ELSE IF MayRetry(q)
     THEN Sleep(r, e)
     ELSE NextIteration(r, e)
  /\ UNCHANGED <<rlVars, svcVars, now, cbVars, ddVars, cacheVars, maxConcurrent, limiterQueue,
                 limiterReady>>

\* The sleep ends and the iteration with it.
SleepEnds(r) ==
  /\ reqs[r].pc = "sleeping"
  /\ NextIteration(r, reqs[r])
  /\ UNCHANGED <<rlVars, svcVars, now, cbVars, ddVars, cacheVars, maxConcurrent, limiterQueue,
                 limiterReady>>

\* ======================================================== CircuitBreaker
IdleCall == [pc |-> "idle", outcome |-> "none", admittedIn |-> "none"]

\* new CircuitBreaker(failureThreshold, cooldownMs, successThreshold)
CircuitBreakerNew(ft, cd, st) ==
  /\ failureThreshold = ft
  /\ cooldownMs = cd
  /\ successThreshold = st
  /\ state = "CLOSED"
  /\ failureCount = 0
  /\ successCount = 0
  /\ nextAttemptTime = 0
  /\ calls = [c \in Callers |-> IdleCall]
  /\ consecFailures = 0
  /\ trialSuccesses = 0

\* Variant of onSuccess: the threshold is tested before the increment.
onSuccess_LateClose ==
  /\ failureCount' = 0
  /\ IF state = "HALF_OPEN"
     THEN IF successCount >= successThreshold
          THEN state' = "CLOSED" /\ successCount' = 0
          ELSE state' = state /\ successCount' = successCount + 1
     ELSE state' = state /\ successCount' = successCount
  /\ nextAttemptTime' = nextAttemptTime

\* Variant of onSuccess: failureCount is left as it is.
onSuccess_KeepsFailures ==
  /\ failureCount' = failureCount
  /\ IF state = "HALF_OPEN"
     THEN IF successCount + 1 >= successThreshold
          THEN state' = "CLOSED" /\ successCount' = 0
          ELSE state' = state /\ successCount' = successCount + 1
     ELSE state' = state /\ successCount' = successCount
  /\ nextAttemptTime' = nextAttemptTime

\* private onSuccess(): the breaker fields after a successful call.
onSuccess ==
  /\ failureCount' = 0
  /\ IF state = "HALF_OPEN"
     THEN IF successCount + 1 >= successThreshold
          THEN state' = "CLOSED" /\ successCount' = 0
          ELSE state' = state /\ successCount' = successCount + 1
     ELSE state' = state /\ successCount' = successCount
  /\ nextAttemptTime' = nextAttemptTime

\* Variant of onFailure: successCount is left as it is.
onFailure_KeepsSuccesses ==
  /\ failureCount' = failureCount + 1
  /\ successCount' = successCount
  /\ IF state = "HALF_OPEN" \/ failureCount + 1 >= failureThreshold
     THEN state' = "OPEN" /\ nextAttemptTime' = now + cooldownMs
     ELSE state' = state /\ nextAttemptTime' = nextAttemptTime

\* Variant of onFailure: only the threshold re-opens, HALF_OPEN is not tested.
onFailure_ThresholdOnly ==
  /\ failureCount' = failureCount + 1
  /\ successCount' = 0
  /\ IF failureCount + 1 >= failureThreshold
     THEN state' = "OPEN" /\ nextAttemptTime' = now + cooldownMs
     ELSE state' = state /\ nextAttemptTime' = nextAttemptTime

\* private onFailure(): the breaker fields after a failed call.
onFailure ==
  /\ failureCount' = failureCount + 1
  /\ successCount' = 0
  /\ IF state = "HALF_OPEN" \/ failureCount + 1 >= failureThreshold
     THEN state' = "OPEN" /\ nextAttemptTime' = now + cooldownMs
     ELSE state' = state /\ nextAttemptTime' = nextAttemptTime

\* Variant of execute: an OPEN breaker goes to HALF_OPEN whatever the time.
execute_NoCooldown(c) ==
  /\ calls[c].pc = "idle"
  /\ IF state = "OPEN"
     THEN state' = "HALF_OPEN" /\ successCount' = 0 /\ trialSuccesses' = 0
     ELSE UNCHANGED <<state, successCount, trialSuccesses>>
  /\ calls' = [calls EXCEPT ![c] = [pc |-> "running", outcome |-> "none",
                                    admittedIn |-> state']]
  /\ UNCHANGED <<rlVars, svcVars, now, failureThreshold, cooldownMs, successThreshold, failureCount,
                 nextAttemptTime, consecFailures, ddVars, cacheVars, httpVars>>

\* Variant of execute: a call rejected by the OPEN breaker restarts the
\* cooldown.
execute_RejectExtends(c) ==
  /\ calls[c].pc = "idle"
  /\ IF state = "OPEN" /\ now < nextAttemptTime
     THEN /\ calls' = [calls EXCEPT ![c] = [pc |-> "idle", outcome |-> "rejected",
                                            admittedIn |-> "none"]]
          /\ nextAttemptTime' = now + cooldownMs
          /\ UNCHANGED <<state, successCount, trialSuccesses>>
     ELSE /\ IF state = "OPEN"
             THEN state' = "HALF_OPEN" /\ successCount' = 0 /\ trialSuccesses' = 0
             ELSE UNCHANGED <<state, successCount, trialSuccesses>>
          /\ calls' = [calls EXCEPT ![c] = [pc |-> "running", outcome |-> "none",
                                            admittedIn |-> state']]
          /\ UNCHANGED nextAttemptTime
  /\ UNCHANGED <<rlVars, svcVars, now, failureThreshold, cooldownMs, successThreshold, failureCount,
                 consecFailures, ddVars, cacheVars, httpVars>>

\* execute(fn), synchronous part: up to and including the call of fn().
\* A rejected call throws before fn is called; an admitted call is "running"
\* (fn invoked, its promise unsettled) until it settles.
execute(c) ==
  /\ calls[c].pc = "idle"
  /\ IF state = "OPEN" /\ now < nextAttemptTime
     THEN /\ calls' = [calls EXCEPT ![c] = [pc |-> "idle", outcome |-> "rejected",
                                            admittedIn |-> "none"]]
          /\ UNCHANGED <<state, successCount, trialSuccesses>>
     ELSE /\ IF state = "OPEN"
             THEN state' = "HALF_OPEN" /\ successCount' = 0 /\ trialSuccesses' = 0
             ELSE UNCHANGED <<state, successCount, trialSuccesses>>
          /\ calls' = [calls EXCEPT ![c] = [pc |-> "running", outcome |-> "none",
                                            admittedIn |-> state']]
  /\ UNCHANGED <<rlVars, svcVars, now, failureThreshold, cooldownMs, successThreshold, failureCount,
                 nextAttemptTime, consecFailures, ddVars, cacheVars, httpVars>>

\* execute(fn), continuation after `await fn()` resolved.
SettleSuccess(c) ==
  /\ calls[c].pc = "running"
  /\ onSuccess
  /\ calls' = [calls EXCEPT ![c].pc = "idle", ![c].outcome = "ok"]
  /\ consecFailures' = 0
  /\ trialSuccesses' = IF state = "HALF_OPEN" THEN trialSuccesses + 1 ELSE trialSuccesses
  /\ UNCHANGED <<rlVars, svcVars, now, failureThreshold, cooldownMs, successThreshold, ddVars, cacheVars, httpVars>>

\* execute(fn), continuation after `await fn()` rejected.
SettleFailure(c) ==
  /\ calls[c].pc = "running"
  /\ failureCount < MaxFailureCount
  /\ onFailure
  /\ calls' = [calls EXCEPT ![c].pc = "idle", ![c].outcome = "err"]
  /\ consecFailures' = consecFailures + 1
  /\ trialSuccesses' = 0
  /\ UNCHANGED <<rlVars, svcVars, now, failureThreshold, cooldownMs, successThreshold, ddVars, cacheVars, httpVars>>

\* reset(): force CLOSED.
reset ==
  /\ state' = "CLOSED"
  /\ failureCount' = 0
  /\ successCount' = 0
  /\ nextAttemptTime' = 0
  /\ consecFailures' = 0
  /\ trialSuccesses' = 0
  /\ UNCHANGED <<rlVars, svcVars, now, failureThreshold, cooldownMs, successThreshold, calls, ddVars, cacheVars, httpVars>>

\* ============================================================ RateLimiter
Acquirers == 1..NumAcquirers
NoTime == 0 - 1
IdleAcquirer == [pc |-> "idle", wakeAt |-> 0]

\* new RateLimiter(maxTokens, refillRate); wt = (1 / refillRate) * 1000
RateLimiterNew(mt, wt) ==
  /\ maxTokens = mt
  /\ waitTime = wt
  /\ tokens = mt * wt
  /\ lastRefill = now
  /\ acquirers = [c \in Acquirers |-> IdleAcquirer]
  /\ acquired = << >>
  /\ drainedAt = NoTime

Min(a, b) == IF a <= b THEN a ELSE b

\* refill(): this.tokens after the call. timePassed * refillRate tokens are
\* (now - lastRefill) units of 1/waitTime token.
refill == Min(maxTokens * waitTime, tokens + (now - lastRefill))

\* acquire() up to its return or its await: refill(), then a token is taken if
\* there is one (this.tokens >= 1).
TokenAvailable == refill >= waitTime
acquireBegin ==
  /\ lastRefill' = now
  /\ tokens' = IF TokenAvailable THEN refill - waitTime ELSE refill

\* acquire() after its await: this.tokens = 0.
acquireResume ==
  /\ tokens' = 0
  /\ UNCHANGED lastRefill

\* The bucket as a value, and acquire() up to its return or its await on a
\* given bucket: calls that follow one another without suspension each see
\* the bucket the one before left.
Bucket == [tokens |-> tokens, lastRefill |-> lastRefill]
RefillOf(b) == Min(maxTokens * waitTime, b.tokens + (now - b.lastRefill))
Granted(b) == RefillOf(b) >= waitTime
AfterAcquire(b) ==
  [tokens |-> IF Granted(b) THEN RefillOf(b) - waitTime ELSE RefillOf(b),
   lastRefill |-> now]
\* this.tokens and this.lastRefill are left as bucket b.
BucketBecomes(b) == tokens' = b.tokens /\ lastRefill' = b.lastRefill

acquire(c) ==
  /\ acquirers[c].pc = "idle"
  /\ Len(acquired) + Cardinality({d \in Acquirers : acquirers[d].pc = "waiting"})
       < MaxAcquires
  /\ acquireBegin
  /\ drainedAt' = NoTime
  /\ IF TokenAvailable
     THEN /\ acquired' = Append(acquired, now)
          /\ UNCHANGED acquirers
     ELSE /\ acquirers' = [acquirers EXCEPT ![c] = [pc |-> "waiting",
                                                    wakeAt |-> now + waitTime]]
          /\ UNCHANGED acquired
  /\ UNCHANGED <<now, cbVars, ddVars, cacheVars, httpVars, svcVars, maxTokens, waitTime>>

\* The setTimeout(resolve, waitTime) of a waiting caller fires.
WaitEnds(c) ==
  /\ acquirers[c].pc = "waiting"
  /\ now >= acquirers[c].wakeAt
  /\ acquireResume
  /\ drainedAt' = now
  /\ acquirers' = [acquirers EXCEPT ![c] = IdleAcquirer]
  /\ acquired' = Append(acquired, now)
  /\ UNCHANGED <<now, cbVars, ddVars, cacheVars, httpVars, svcVars, maxTokens, waitTime>>

\* ==================================================== DataProviderService
TOKEN_LIST_TTL == 5 * 60 * 1000
VOLUME_CACHE_TTL == 10 * 60 * 1000

\* Time passes: by one of the given delays (the rate limiter's wait time, the
\* lifetime of a cache, the cooldown of the breaker).
ServiceTick(delays) ==
  /\ now < MaxSvcTime * 1000
  /\ \E d \in delays : now' = now + d
  /\ UNCHANGED <<cbVars, ddVars, cacheVars, httpVars, rlVars, svcVars>>

\* ---- getVolumes / fetchDefiLlamaVolumes / parseDefiLlamaResponse
VolCalls == 1..NumVolCalls
Windows == {"24h", "7d", "30d"}
\* The window lists asked for: none, each window alone, and lists of two and
\* three windows in an order that is not the order of the switch.
WindowLists ==
  {<< >>, <<"24h">>, <<"7d">>, <<"30d">>, <<"7d", "24h">>, <<"24h", "30d">>,
   <<"30d", "24h", "7d">>}
Undefined == 0 - 1
NonNumeric == 0 - 2
Null == [id |-> "null"]
NoVolumeCache == [data |-> Null, fetchedAt |-> Undefined]
\* The aggregator's JSON: a field is absent or a number (the daily one may
\* also be something that is not a number, the monthly figure comes under its
\* first name only); each field has a number of its own, so that a figure
\* shows where it came from.
RawPayloads ==
  [lastDailyVolume : {Undefined, NonNumeric, 1}, weeklyVolume : {Undefined, 2},
   lastWeeklyVolume : {Undefined, 3}, monthlyVolume : {Undefined, 4},
   lastMonthlyVolume : {Undefined}]
\* What the fetch of fetchDefiLlamaVolumes can end in: a status that is not
\* ok, a rejected fetch (network error, timeout), a 2xx body that is not JSON
\* (response.json() throws), JSON that is not an object, or a JSON object.
VolumeOutcomes ==
  {[kind |-> "http-error"], [kind |-> "network"], [kind |-> "bad-json"],
   [kind |-> "not-object"]}
    \cup {[kind |-> "json", raw |-> raw] : raw \in RawPayloads}
\* The outcomes that land in the catch block of fetchDefiLlamaVolumes.
VolumesThrew(o) == o.kind \in {"network", "bad-json"}

\* toNumeric: a finite number, or null
toNumeric(x) == IF x \in {Undefined, NonNumeric} THEN Undefined ELSE x
\* a ?? b
Coalesce(a, b) == IF a = Undefined THEN b ELSE a

\* Variant of parseDefiLlamaResponse: only the daily figure is required.
parseDefiLlamaResponse_Lenient(raw) ==
  LET lastDailyVolume == toNumeric(raw.lastDailyVolume)
      weeklyVolume == toNumeric(Coalesce(raw.weeklyVolume, raw.lastWeeklyVolume))
      monthlyVolume == toNumeric(Coalesce(raw.monthlyVolume, raw.lastMonthlyVolume))
  IN  IF lastDailyVolume = Undefined
      THEN Null
      ELSE [id |-> "20", lastDailyVolume |-> lastDailyVolume,
            weeklyVolume |-> weeklyVolume, monthlyVolume |-> monthlyVolume]

parseDefiLlamaResponse(raw) ==
  LET lastDailyVolume == toNumeric(raw.lastDailyVolume)
      weeklyVolume == toNumeric(Coalesce(raw.weeklyVolume, raw.lastWeeklyVolume))
      monthlyVolume == toNumeric(Coalesce(raw.monthlyVolume, raw.lastMonthlyVolume))
  IN  IF lastDailyVolume = Undefined \/ weeklyVolume = Undefined
         \/ monthlyVolume = Undefined
      THEN Null
      ELSE [id |-> "20", lastDailyVolume |-> lastDailyVolume,
            weeklyVolume |-> weeklyVolume, monthlyVolume |-> monthlyVolume]

\* The switch of getVolumes.
VolumeFor(bridgeData, window) ==
  CASE window = "24h" -> bridgeData.lastDailyVolume
    [] window = "7d" -> bridgeData.weeklyVolume
    [] window = "30d" -> bridgeData.monthlyVolume

\* getVolumes after fetchDefiLlamaVolumes returned bridgeData: one entry per
\* window whose figure is not undefined, in the order of the windows.
RECURSIVE VolumeEntries(_, _)
VolumeEntries(bridgeData, windows) ==
  IF windows = << >> THEN << >>
  ELSE LET volumeUsd == VolumeFor(bridgeData, Head(windows))
           rest == VolumeEntries(bridgeData, Tail(windows))
       IN  IF volumeUsd # Undefined
           THEN <<[window |-> Head(windows), volumeUsd |-> volumeUsd]>> \o rest
           ELSE rest
VolumesOf(bridgeData, windows) ==
  IF bridgeData = Null THEN << >> ELSE VolumeEntries(bridgeData, windows)

IdleVolCall == [pc |-> "idle", windows |-> << >>, wakeAt |-> 0]
NoVolRet == [windows |-> << >>, data |-> Null, result |-> << >>, fetched |-> "none"]
VolumesReturn(windows, data, fetched) ==
  [windows |-> windows, data |-> data, result |-> VolumesOf(data, windows),
   fetched |-> fetched]

\* this.volumeCache && Date.now() - this.volumeCache.fetchedAt < VOLUME_CACHE_TTL
VolumesFresh ==
  volumeCache # NoVolumeCache /\ now - volumeCache.fetchedAt < VOLUME_CACHE_TTL

\* getVolumes(windows) up to its first suspension, the rate limiter's bucket
\* being b: a fresh volumeCache answers at once; otherwise
\* rateLimiter.acquire() is called and, with a token, the request is sent.
VolumesBegin(c, windows, b) ==
  IF VolumesFresh
  THEN /\ volRet' = VolumesReturn(windows, volumeCache.data, "cache")
       /\ UNCHANGED volCalls
  ELSE /\ volCalls' = [volCalls EXCEPT ![c] =
              IF Granted(b)
              THEN [pc |-> "fetching", windows |-> windows, wakeAt |-> 0]
              ELSE [pc |-> "acquiring", windows |-> windows,
                    wakeAt |-> now + waitTime]]
       /\ UNCHANGED volRet
\* The bucket it leaves.
VolumesBucket(b) == IF VolumesFresh THEN b ELSE AfterAcquire(b)

getVolumes(c, windows) ==
  /\ volCalls[c].pc = "idle"
  /\ VolumesBegin(c, windows, Bucket)
  /\ BucketBecomes(VolumesBucket(Bucket))
  /\ UNCHANGED <<now, cbVars, ddVars, cacheVars, httpVars, maxTokens, waitTime,
                 acquirers, acquired, drainedAt, volumeCache, notVolVars>>

\* The wait inside rateLimiter.acquire() ends and the request is sent.
VolumesAcquired(c) ==
  /\ volCalls[c].pc = "acquiring"
  /\ now >= volCalls[c].wakeAt
  /\ acquireResume
  /\ volCalls' = [volCalls EXCEPT ![c].pc = "fetching", ![c].wakeAt = 0]
  /\ UNCHANGED <<now, cbVars, ddVars, cacheVars, httpVars, maxTokens, waitTime,
                 acquirers, acquired, drainedAt, volumeCache, volRet, notVolVars>>

\* The fetch settles, and fetchDefiLlamaVolumes and getVolumes run to their end.
VolumesFetched(c, o) ==
  LET data == IF o.kind = "json" THEN parseDefiLlamaResponse(o.raw) ELSE Null
  IN
  /\ volCalls[c].pc = "fetching"
  /\ volumeCache' = IF VolumesThrew(o) THEN volumeCache
                    ELSE [data |-> data, fetchedAt |-> now]
  /\ volRet' = VolumesReturn(volCalls[c].windows, data, o.kind)
  /\ volCalls' = [volCalls EXCEPT ![c] = IdleVolCall]
  /\ UNCHANGED <<now, cbVars, ddVars, cacheVars, httpVars, rlVars, notVolVars>>

\* ---- getLiquidityDepth
\* An amount of a quote: absent, the empty string, a string that is not an
\* integer, or the decimal string of 0..MaxAmount.
EmptyString == 0 - 3
Amounts == {Undefined, EmptyString, NonNumeric} \cup 0..MaxAmount
\* !x for an amount string
Falsy(x) == x \in {Undefined, EmptyString}
\* BigInt(x) throws
NotBigInt(x) == x = NonNumeric
\* The quotes fetchQuoteWithRetry can return: null, or a payload with an
\* estimation (a payload without one is turned into null by it).
LiquidityQuotes ==
  {Null} \cup [srcAmount : Amounts, amount : {Undefined, 1},
               recommendedAmount : Amounts, maxTheoreticalAmount : Amounts]
NoEntry == << >>
\* 1000n * 10n ** decimals, the reference amount asked for
referenceAmount == MaxAmount

\* The body of getLiquidityDepth's loop after the quote arrived: the
\* thresholds pushed for the route, or NoEntry when the route is skipped.
LiquidityEntry(quote) ==
  IF quote = Null THEN NoEntry
  ELSE
  LET srcAmount == Coalesce(quote.srcAmount, referenceAmount)
      recommendedDest == Coalesce(quote.recommendedAmount, quote.amount)
      maxDest == Coalesce(quote.maxTheoreticalAmount, recommendedDest)
      maxSource ==
        IF ~Falsy(maxDest) /\ recommendedDest # 0
           /\ ~NotBigInt(srcAmount) /\ ~NotBigInt(recommendedDest)
           /\ ~NotBigInt(maxDest) /\ recommendedDest > 0
        THEN (srcAmount * maxDest) \div recommendedDest
        ELSE srcAmount
  IN  IF Falsy(srcAmount) \/ Falsy(recommendedDest) THEN NoEntry
      ELSE <<[maxAmountIn |-> srcAmount, slippageBps |-> 50],
             [maxAmountIn |-> maxSource, slippageBps |-> 100]>>

\* getLiquidityDepth, one route: the quote is fetched and the entry computed.
LiquidityForRoute(quote) ==
  /\ liqRet' = [quote |-> quote, entry |-> LiquidityEntry(quote), last |-> "none"]
  /\ UNCHANGED <<now, cbVars, ddVars, cacheVars, httpVars, rlVars, notLiqVars,
                 liqCalls, liqList>>

\* ---- getLiquidityDepth / fetchQuoteWithRetry as calls in progress
LiqCalls == 1..NumLiqCalls
\* maxRetries: number = 3
QuoteMaxRetries == 3
\* retryDelays[attempt] || 4000
RetryDelay(attempt) ==
  IF attempt = 0 THEN 1000 ELSE IF attempt = 1 THEN 2000 ELSE 4000

\* What one attempt of fetchQuoteWithRetry can end in: HTTP 5xx, 429 or
\* another status that is not ok; a timeout or network error; another thrown
\* error (a body that is not JSON); a payload without estimation; a payload
\* with one.
QuoteAttemptOutcomes ==
  {[kind |-> k] : k \in {"5xx", "429", "4xx", "timeout", "error", "no-estimation"}}
    \cup {[kind |-> "payload", quote |-> q] : q \in LiquidityQuotes \ {Null}}
\* Variant of Retryable: every status that is not ok is followed by a retry.
Retryable_AnyStatus(o) == o.kind \in {"5xx", "429", "4xx", "timeout"}
\* response.status >= 500 || response.status === 429; isTimeout || isNetwork
Retryable(o) == o.kind \in {"5xx", "429", "timeout"}

IdleLiqCall == [pc |-> "idle", routes |-> 0, attempt |-> 0, wakeAt |-> 0,
                liquidity |-> << >>, quoted |-> 0, sent |-> 0, acquires |-> 0,
                last |-> "none"]
NoLiqRet == [quote |-> Null, entry |-> NoEntry, last |-> "none"]
NoLiqList == [liquidity |-> << >>, quoted |-> 0]

\* The call goes on from record a (the route loop at a route not gone through
\* yet), the rate limiter's bucket being b: it returns the list, or enters
\* fetchQuoteWithRetry, whose first statement is rateLimiter.acquire().
LiquidityBegin(c, a, b) ==
  IF a.routes = 0
  THEN /\ liqList' = [liquidity |-> a.liquidity, quoted |-> a.quoted]
       /\ liqCalls' = [liqCalls EXCEPT ![c] = IdleLiqCall]
  ELSE /\ liqCalls' = [liqCalls EXCEPT ![c] =
            IF Granted(b)
            THEN [a EXCEPT !.pc = "fetching", !.attempt = 0, !.wakeAt = 0,
                           !.sent = 1, !.acquires = 1, !.last = "none"]
            ELSE [a EXCEPT !.pc = "acquiring", !.attempt = 0,
                           !.wakeAt = now + waitTime,
                           !.sent = 0, !.acquires = 1, !.last = "none"]]
       /\ UNCHANGED liqList
\* The bucket it leaves.
LiquidityBucket(a, b) == IF a.routes = 0 THEN b ELSE AfterAcquire(b)

\* The same on the rate limiter as it is.
LiquidityContinue(c, a) ==
  /\ LiquidityBegin(c, a, Bucket)
  /\ BucketBecomes(LiquidityBucket(a, Bucket))

\* getLiquidityDepth(routes) up to its first suspension or its return.
getLiquidityDepth(c, n) ==
  /\ liqCalls[c].pc = "idle"
  /\ LiquidityContinue(c, [IdleLiqCall EXCEPT !.routes = n])
  /\ UNCHANGED <<now, cbVars, ddVars, cacheVars, httpVars, maxTokens, waitTime,
                 acquirers, acquired, drainedAt, liqRet, notLiqVars>>

\* The wait inside rateLimiter.acquire() ends and the request is sent.
LiquidityAcquired(c) ==
  /\ liqCalls[c].pc = "acquiring"
  /\ now >= liqCalls[c].wakeAt
  /\ acquireResume
  /\ liqCalls' = [liqCalls EXCEPT ![c].pc = "fetching", ![c].wakeAt = 0,
                                  ![c].sent = liqCalls[c].sent + 1]
  /\ UNCHANGED <<now, cbVars, ddVars, cacheVars, httpVars, maxTokens, waitTime,
                 acquirers, acquired, drainedAt, liqRet, liqList, notLiqVars>>

\* The fetch of the current attempt settles: a retryable failure with
\* attempts left is followed by a sleep; otherwise fetchQuoteWithRetry
\* returns the payload or null, the route's entry is pushed or the route is
\* skipped, and the route loop goes on.
LiquidityFetched(c, o) ==
  LET a == liqCalls[c]
      quote == IF o.kind = "payload" THEN o.quote ELSE Null
      entry == LiquidityEntry(quote)
  IN
  /\ a.pc = "fetching"
  /\ IF Retryable(o) /\ a.attempt < QuoteMaxRetries
     THEN /\ liqCalls' = [liqCalls EXCEPT ![c].pc = "sleeping",
                                          ![c].wakeAt = now + RetryDelay(a.attempt),
                                          ![c].last = o.kind]
          /\ UNCHANGED <<tokens, lastRefill, liqRet, liqList>>
     ELSE /\ liqRet' = [quote |-> quote, entry |-> entry, last |-> o.kind]
          /\ LiquidityContinue(c, [a EXCEPT
                !.routes = a.routes - 1,
                !.quoted = IF quote = Null THEN a.quoted ELSE a.quoted + 1,
                !.liquidity = IF entry = NoEntry THEN a.liquidity
                              ELSE Append(a.liquidity, entry)])
  /\ UNCHANGED <<now, cbVars, ddVars, cacheVars, httpVars, maxTokens, waitTime,
                 acquirers, acquired, drainedAt, notLiqVars>>

\* The sleep before a retry ends: attempt++, and the next iteration begins
\* with rateLimiter.acquire().
LiquiditySleepEnds(c) ==
  LET a == liqCalls[c] IN
  /\ a.pc = "sleeping"
  /\ now >= a.wakeAt
  /\ BucketBecomes(AfterAcquire(Bucket))
  /\ liqCalls' = [liqCalls EXCEPT ![c] =
         IF Granted(Bucket)
         THEN [a EXCEPT !.pc = "fetching", !.attempt = a.attempt + 1, !.wakeAt = 0,
                        !.sent = a.sent + 1, !.acquires = a.acquires + 1]
         ELSE [a EXCEPT !.pc = "acquiring", !.attempt = a.attempt + 1,
                        !.wakeAt = now + waitTime, !.acquires = a.acquires + 1]]
  /\ UNCHANGED <<now, cbVars, ddVars, cacheVars, httpVars, maxTokens, waitTime,
                 acquirers, acquired, drainedAt, liqRet, liqList, notLiqVars>>

\* ---- getListedAssets
AssetCalls == 1..NumAssetCalls
Chains == {"1", "137"}
\* Token addresses as the token list gives them; '' stands for no address.
NoAddress == ""
Addresses == {NoAddress, "a", "A"}
TokenLists == UNION {[1..n -> Addresses] : n \in 0..MaxTokenList}
\* new Set(routes.flatMap(...)): the distinct chain ids of the routes, in order
ChainLists ==
  {ch \in UNION {[1..n -> Chains] : n \in 1..Cardinality(Chains)} :
     \A i, j \in 1..Len(ch) : i # j => ch[i] # ch[j]}
\* What the fetch of a chain's token list can end in.
TokenListOutcomes ==
  {[kind |-> "http-error"], [kind |-> "network"], [kind |-> "no-tokens"]}
    \cup {[kind |-> "tokens", tokens |-> t] : t \in TokenLists}
NoTokenList == [assets |-> << >>, fetchedAt |-> Undefined]

\* String.toLowerCase()
toLowerCase(x) == IF x = "A" THEN "a" ELSE x

\* `${chainIdStr}:${assetId}`, the keys of `seen': every asset pushed has its
\* key added in the same statement block.
KeyOf(asset) == <<asset.chainId, toLowerCase(asset.assetId)>>
Seen(assets) == {KeyOf(assets[i]) : i \in 1..Len(assets)}

\* Variant of SkipToken: `seen' is not consulted.
SkipToken_NoSeen(address, key, seen) == address = NoAddress

\* if (!token?.address) continue; ... if (seen.has(key)) continue;
SkipToken(address, key, seen) == address = NoAddress \/ key \in seen

\* The loop over a fetched token list: tokens without address and tokens
\* already seen are skipped, the others become assets of the chain.
RECURSIVE ChainAssets(_, _, _)
ChainAssets(chainId, tokenList, seen) ==
  IF tokenList = << >> THEN << >>
  ELSE LET asset == [chainId |-> chainId, assetId |-> toLowerCase(Head(tokenList))]
       IN  IF SkipToken(Head(tokenList), KeyOf(asset), seen)
           THEN ChainAssets(chainId, Tail(tokenList), seen)
           ELSE <<asset>> \o ChainAssets(chainId, Tail(tokenList), seen \cup {KeyOf(asset)})

\* The loop over a cached token list: assets already seen are skipped.
RECURSIVE CachedAssets(_, _)
CachedAssets(cached, seen) ==
  IF cached = << >> THEN << >>
  ELSE IF KeyOf(Head(cached)) \in seen
       THEN CachedAssets(Tail(cached), seen)
       ELSE <<Head(cached)>> \o CachedAssets(Tail(cached), seen \cup {KeyOf(Head(cached))})

FreshTokenList(chainId) ==
  /\ tokenListCache[chainId] # NoTokenList
  /\ now - tokenListCache[chainId].fetchedAt < TOKEN_LIST_TTL

\* The loop over the chain ids as far as it runs without suspension: chains
\* with a fresh cache entry are served from it.
RECURSIVE ThroughCache(_)
ThroughCache(a) ==
  IF a.chains = << >> \/ ~FreshTokenList(Head(a.chains)) THEN a
  ELSE LET cached == tokenListCache[Head(a.chains)].assets
       IN  ThroughCache([a EXCEPT
             !.chains = Tail(a.chains),
             !.assets = a.assets \o CachedAssets(cached, Seen(a.assets)),
             !.expected = a.expected \cup Seen(cached)])

IdleAssetCall == [pc |-> "idle", chains |-> << >>, wakeAt |-> 0, assets |-> << >>,
                  failed |-> {}, expected |-> {}]
NoAssetRet == [assets |-> << >>, failed |-> {}, expected |-> {}]

\* The call goes on from record a (the loop variable at a chain not served
\* yet): through the cache, then either the return or rateLimiter.acquire()
\* for the next chain's fetch.
AssetsBegin(c, a, bucket) ==
  LET b == ThroughCache(a) IN
  IF b.chains = << >>
  THEN /\ assetRet' = [assets |-> b.assets, failed |-> b.failed, expected |-> b.expected]
       /\ assetCalls' = [assetCalls EXCEPT ![c] = IdleAssetCall]
  ELSE /\ assetCalls' = [assetCalls EXCEPT ![c] =
            IF Granted(bucket)
            THEN [b EXCEPT !.pc = "fetching", !.wakeAt = 0]
            ELSE [b EXCEPT !.pc = "acquiring", !.wakeAt = now + waitTime]]
       /\ UNCHANGED assetRet
\* The bucket it leaves.
AssetsBucket(a, bucket) ==
  IF ThroughCache(a).chains = << >> THEN bucket ELSE AfterAcquire(bucket)

\* The same on the rate limiter as it is.
AssetsContinue(c, a) ==
  /\ AssetsBegin(c, a, Bucket)
  /\ BucketBecomes(AssetsBucket(a, Bucket))

\* getListedAssets(routes) up to its first suspension or its return.
getListedAssets(c, chainIds) ==
  /\ assetCalls[c].pc = "idle"
  /\ AssetsContinue(c, [IdleAssetCall EXCEPT !.chains = chainIds])
  /\ UNCHANGED <<now, cbVars, ddVars, cacheVars, httpVars, maxTokens, waitTime,
                 acquirers, acquired, drainedAt, tokenListCache, notAssetVars>>

\* The wait inside rateLimiter.acquire() ends and the request is sent.
AssetsAcquired(c) ==
  /\ assetCalls[c].pc = "acquiring"
  /\ now >= assetCalls[c].wakeAt
  /\ acquireResume
  /\ assetCalls' = [assetCalls EXCEPT ![c].pc = "fetching", ![c].wakeAt = 0]
  /\ UNCHANGED <<now, cbVars, ddVars, cacheVars, httpVars, maxTokens, waitTime,
                 acquirers, acquired, drainedAt, tokenListCache, assetRet, notAssetVars>>

\* The fetch of the first remaining chain settles; the loop goes on. The
\* cache lookups of the chains after it see the cache as written here, which
\* is the cache they see in the code: only this call runs until it suspends.
AssetsFetched(c, o) ==
  LET a == assetCalls[c]
      chainId == Head(a.chains)
      chainAssets == ChainAssets(chainId, o.tokens, Seen(a.assets))
  IN
  /\ a.pc = "fetching"
  /\ IF o.kind = "tokens"
     THEN /\ tokenListCache' = [tokenListCache EXCEPT ![chainId] =
                                  [assets |-> chainAssets, fetchedAt |-> now]]
          /\ AssetsContinue(c, [a EXCEPT !.chains = Tail(a.chains),
                                         !.assets = a.assets \o chainAssets,
                                         !.expected = a.expected \cup Seen(chainAssets)])
     ELSE /\ UNCHANGED tokenListCache
          /\ AssetsContinue(c, [a EXCEPT !.chains = Tail(a.chains),
                                  !.failed = IF o.kind = "no-tokens" THEN a.failed
                                             ELSE a.failed \cup {chainId}])
  /\ UNCHANGED <<now, cbVars, ddVars, cacheVars, httpVars, maxTokens, waitTime,
                 acquirers, acquired, drainedAt, notAssetVars>>

\* ---- getRates
RateCalls == 1..NumRateCalls
InvalidNotional == 0      \* a notional that is empty or not a number

\* The arguments of a call: n routes (copies of one route, so that a pair's
\* cache key is its notional) and a list of notionals.
RateRequests ==
  {[n |-> n, notionals |-> m] :
     n \in {1, 2}, m \in {<<1, 2>>, <<InvalidNotional, 1>>}}

\* What the quote endpoint's JSON can be: a quote with an estimation and both
\* amounts; one without estimation; one whose amounts are missing; the JSON
\* value null.
QuoteKinds == {"valid", "no-estimation", "no-amount", "null"}
\* What the deduplicated fetchWithRetry ends in: a quote, or a rejection.
QuoteOutcomes == QuoteKinds \cup {"failed"}

\* if (!quote?.estimation) throw
HasEstimation(quote) == quote \notin {"null", "no-estimation"}
\* if (!fromAmount || !toAmount) throw
HasAmounts(quote) == quote # "no-amount"
\* Variant of ParsesToRate: the amounts are not tested.
ParsesToRate_NoAmountCheck(quote) == HasEstimation(quote)

\* The statements between the quote in hand and rates.push: all of them pass.
ParsesToRate(quote) == HasEstimation(quote) /\ HasAmounts(quote)

\* if (cachedQuote): the cache holds a live entry whose value is truthy.
CachedQuote(entries, key) ==
  /\ key \in KeysOf(AfterGet(entries, key))
  /\ EntryOf(entries, key).value # "null"

\* execute(): if (this.state === 'OPEN' && Date.now() < this.nextAttemptTime) throw
CircuitOpen == state = "OPEN" /\ now < nextAttemptTime

IdleRateCall == [pc |-> "idle", n |-> 0, notionals |-> << >>, k |-> 0, rates |-> << >>,
                 obtained |-> {}, op |-> NoOp, quote |-> "none"]
NoRateRet == [n |-> 0, notionals |-> << >>, rates |-> << >>, obtained |-> {}]

\* The loops' position k as (route, notional) indexes, and the pair's notional.
RouteAt(s) == ((s.k - 1) \div Len(s.notionals)) + 1
NotionalAt(s) == ((s.k - 1) % Len(s.notionals)) + 1
NotionalOf(s) == s.notionals[NotionalAt(s)]
PairCount(s) == s.n * Len(s.notionals)

\* this.quoteCache.get(cacheKey) on the run's cache
QuoteCacheGet(s, key) ==
  [s EXCEPT !.cache = AfterGet(s.cache, key),
            !.ret = [op |-> "get", key |-> key, result |-> GetResult(s.cache, key),
                     evicted |-> IF key \in KeysOf(s.cache) \ KeysOf(AfterGet(s.cache, key))
                                 THEN key ELSE NoKey],
            !.order = Track(s.order, KeysOf(s.cache), KeysOf(AfterGet(s.cache, key)))]

\* this.quoteCache.set(cacheKey, quote) on the run's cache
QuoteCacheSet(s, key, quote) ==
  LET kept == EvictIfFull(s.cache)
      evicted == KeysOf(s.cache) \ KeysOf(kept)
      after == Put(kept, [key |-> key, value |-> quote, expiresAt |-> now + ttlMs,
                          setAt |-> now])
  IN  [s EXCEPT !.cache = after,
                !.ret = [op |-> "set", key |-> key, result |-> quote,
                         evicted |-> IF evicted = {} THEN NoKey
                                     ELSE CHOOSE j \in evicted : TRUE],
                !.order = Track(Track(s.order, KeysOf(s.cache), KeysOf(kept)),
                                KeysOf(kept), KeysOf(after))]

\* continue, and the catch block: the pair is left without an entry.
SkipPair(s) == [s EXCEPT !.k = s.k + 1]

\* From the quote in hand to the end of the pair's iteration: the entry is
\* pushed, or a throw lands in the catch block.
Conclude(s, quote) ==
  [s EXCEPT !.k = s.k + 1,
            !.rates = IF ParsesToRate(quote)
                      THEN Append(s.rates, [route |-> RouteAt(s), notional |-> NotionalAt(s)])
                      ELSE s.rates,
            !.obtained = IF quote = "valid" THEN s.obtained \cup {s.k} ELSE s.obtained]

\* The loops from pair k on, up to the first await (fetch = TRUE: pair k's
\* quote is to be fetched) or to the end of the loops.
RECURSIVE RatesRun(_)
RatesRun(s) ==
  IF s.k > PairCount(s) THEN s
  ELSE IF NotionalOf(s) = InvalidNotional THEN RatesRun(SkipPair(s))
  ELSE LET key == NotionalOf(s)
           g == QuoteCacheGet(s, key)
       IN  IF CachedQuote(s.cache, key)
           THEN RatesRun(Conclude(g, EntryOf(s.cache, key).value))
           ELSE IF CircuitOpen THEN RatesRun(SkipPair(g))
           ELSE [g EXCEPT !.fetch = TRUE]

\* A call's loops as the run they make from the service's state.
RunOf(a) == [n |-> a.n, notionals |-> a.notionals, k |-> a.k, rates |-> a.rates,
             obtained |-> a.obtained, cache |-> cache, ret |-> ret,
             order |-> insertOrder, fetch |-> FALSE]

\* An operation id that no call awaits and that is not in flight.
FreeOp(c) == {o \in OpIds : /\ ops[o].status # "running"
                            /\ \A d \in RateCalls \ {c} : rateCalls[d].op # o}

\* The call runs on from run s0: it returns the rates, or suspends in
\* dlnCircuit.execute(() => deduplicator.deduplicate(cacheKey, fetchWithRetry)),
\* whose synchronous parts have run (OPEN becomes HALF_OPEN; the pending
\* promise of the key is taken, or a new operation is started and stored).
RatesContinue(c, s0) ==
  LET s == RatesRun(s0)
      key == NotionalOf(s)
  IN  /\ cache' = s.cache
      /\ ret' = s.ret
      /\ insertOrder' = s.order
      /\ IF ~s.fetch
         THEN /\ rateCalls' = [rateCalls EXCEPT ![c] = IdleRateCall]
              /\ rateRet' = [n |-> s.n, notionals |-> s.notionals, rates |-> s.rates,
                             obtained |-> s.obtained]
              /\ UNCHANGED <<state, successCount, trialSuccesses, pending, ops>>
         ELSE /\ IF state = "OPEN"
                 THEN state' = "HALF_OPEN" /\ successCount' = 0 /\ trialSuccesses' = 0
                 ELSE UNCHANGED <<state, successCount, trialSuccesses>>
              /\ IF pending[key] # NoOp
                 THEN /\ rateCalls' = [rateCalls EXCEPT ![c] =
                           [pc |-> "awaiting", n |-> s.n, notionals |-> s.notionals,
                            k |-> s.k, rates |-> s.rates, obtained |-> s.obtained,
                            op |-> pending[key], quote |-> "none"]]
                      /\ UNCHANGED <<pending, ops>>
                 ELSE /\ FreeOp(c) # {}
                      /\ LET o == CHOOSE o \in FreeOp(c) : TRUE
                         IN  /\ ops' = [ops EXCEPT ![o] = [key |-> key, status |-> "running"]]
                             /\ pending' = [pending EXCEPT ![key] = o]
                             /\ rateCalls' = [rateCalls EXCEPT ![c] =
                                  [pc |-> "awaiting", n |-> s.n, notionals |-> s.notionals,
                                   k |-> s.k, rates |-> s.rates, obtained |-> s.obtained,
                                   op |-> o, quote |-> "none"]]
              /\ rateRet' = NoRateRet
      /\ UNCHANGED <<ttlMs, maxSize, nextOp, clients, failureThreshold, cooldownMs,
                     successThreshold, calls>>

\* Variant of RatesRejected: a notional that is not a positive amount is
\* refused as well.
RatesRejected_Strict(request) ==
  \/ request.n = 0
  \/ request.notionals = << >>
  \/ \E i \in DOMAIN request.notionals : request.notionals[i] = InvalidNotional

\* if (!routes?.length || !notionals?.length) throw
RatesRejected(request) == request.n = 0 \/ request.notionals = << >>

\* getRates(routes, notionals), up to its first await or its return, for
\* arguments that pass its test.
RatesBegin(c, request) ==
  /\ RatesContinue(c, RunOf([IdleRateCall EXCEPT !.n = request.n,
                                                 !.notionals = request.notionals,
                                                 !.k = 1]))
  /\ UNCHANGED <<failureCount, nextAttemptTime, consecFailures>>

getRates(c, request) ==
  /\ rateCalls[c].pc = "idle"
  /\ ~RatesRejected(request)
  /\ RatesBegin(c, request)
  /\ UNCHANGED <<now, rlVars, httpVars, notRateVars>>

\* execute()'s continuation after `await fn()`: the operation the call awaits
\* has settled, onSuccess() or onFailure() runs, and execute() returns or
\* rethrows to getRates.
CircuitSettles(c) ==
  LET a == rateCalls[c]
      quote == ops[a.op].status
  IN  /\ a.pc = "awaiting"
      /\ quote \in QuoteOutcomes
      /\ IF quote = "failed"
         THEN /\ onFailure
              /\ consecFailures' = consecFailures + 1
              /\ trialSuccesses' = 0
         ELSE /\ onSuccess
              /\ consecFailures' = 0
              /\ trialSuccesses' = IF state = "HALF_OPEN" THEN trialSuccesses + 1
                                   ELSE trialSuccesses
      /\ rateCalls' = [rateCalls EXCEPT ![c].pc = "resumed", ![c].quote = quote]
      /\ UNCHANGED <<now, rlVars, httpVars, ddVars, cacheVars, notRateVars, rateRet,
                     failureThreshold, cooldownMs, successThreshold, calls>>

\* getRates resumes after `await this.dlnCircuit.execute(...)`: a quote is
\* cached and turned into an entry, a rejection lands in the catch block; then
\* the loops run on.
RatesResume(c) ==
  LET a == rateCalls[c]
      key == NotionalOf(a)
  IN  /\ a.pc = "resumed"
      /\ IF a.quote = "failed"
         THEN RatesContinue(c, SkipPair(RunOf(a)))
         ELSE RatesContinue(c, Conclude(QuoteCacheSet(RunOf(a), key, a.quote), a.quote))
      /\ UNCHANGED <<failureCount, nextAttemptTime, consecFailures>>
      /\ UNCHANGED <<now, rlVars, httpVars, notRateVars>>

\* ---- getRouteIntelligence (part_006:1463-1599)
\* const probeSizesUsd = [...]
probeSizesUsd == <<1000, 5000, 10000, 50000, 100000, 500000, 1000000, 5000000>>

\* A number of the program as the fraction num/den in lowest terms, den >= 0:
\* den = 0 for NaN (0/0), Infinity (1/0) and -Infinity (-1/0).
NaN == [num |-> 0, den |-> 0]
Infinity == [num |-> 1, den |-> 0]
NegInfinity == [num |-> 0 - 1, den |-> 0]
Num(n) == [num |-> n, den |-> 1]
Abs(n) == IF n < 0 THEN 0 - n ELSE n
RECURSIVE Gcd(_, _)
Gcd(a, b) == IF b = 0 THEN a ELSE Gcd(b, a % b)
Ratio(n, d) ==
  IF d = 0
  THEN [num |-> IF n > 0 THEN 1 ELSE IF n < 0 THEN 0 - 1 ELSE 0, den |-> 0]
  ELSE LET g == Gcd(Abs(n), Abs(d))
       IN  [num |-> ((IF d < 0 THEN 0 - n ELSE n) \div g), den |-> Abs(d) \div g]
\* Number(x) for an amount of a payload: undefined and a string that is not a
\* number give NaN, the empty string gives 0.
Number(x) ==
  IF x \in {Undefined, NonNumeric} THEN NaN
  ELSE IF x = EmptyString THEN Num(0) ELSE Num(x)
\* a / b, for a and b that are not negative
Quotient(a, b) ==
  IF a = NaN \/ b = NaN \/ (a.den = 0 /\ b.den = 0) THEN NaN
  ELSE Ratio(a.num * b.den, a.den * b.num)
\* a >= b, for a and b that are not negative
Geq(a, b) == a # NaN /\ b # NaN /\ a.num * b.den >= b.num * a.den
\* Math.max(...rates), for a list that is not empty
RECURSIVE MathMax(_)
MathMax(rates) ==
  IF Len(rates) = 1 THEN Head(rates)
  ELSE LET m == MathMax(Tail(rates))
       IN  IF Head(rates) = NaN \/ m = NaN THEN NaN
           ELSE IF Geq(Head(rates), m) THEN Head(rates) ELSE m
\* Math.round((1 - rate / baseline) * 10000)
PriceImpact(rate, baseline) ==
  LET x == Quotient(rate, baseline)
  IN  IF x = NaN THEN NaN
      ELSE IF x.den = 0 THEN NegInfinity
      ELSE Num(((x.den - x.num) * 10000 * 2 + x.den) \div (2 * x.den))
\* The fee efficiency score of a list of rates: Math.max(0, Math.min(100,
\* 100 - stdDev / avgRate * 100)), kept as the term it is.
FeeEfficiency(rates) == [score |-> "feeEfficiency", rates |-> rates]

\* successfulQuotes.find(q => q.amountUsd === usd): the quotes found
FindQuote(successfulQuotes, usd) ==
  SelectSeq(successfulQuotes, LAMBDA q : q.amountUsd = usd)

\* The optimal range of two successful quotes or more.
OptimalRange(successfulQuotes) ==
  LET bestRate == MathMax([i \in DOMAIN successfulQuotes |->
                             successfulQuotes[i].effectiveRate])
      optimalQuotes == SelectSeq(successfulQuotes,
                         LAMBDA q : Geq(q.effectiveRate, Ratio(bestRate.num * 99, bestRate.den * 100)))
  IN  IF Len(optimalQuotes) > 0
      THEN [min |-> optimalQuotes[1].amountUsd,
            max |-> optimalQuotes[Len(optimalQuotes)].amountUsd]
      ELSE Null

\* Variant of MaxCapacity: the size of the last probe, failed or not.
MaxCapacity_LastProbed(quotes) ==
  IF Len(quotes) > 0 THEN Num(quotes[Len(quotes)].amountUsd) ELSE Null

\* maxCapacityUsd of a route's quotes
MaxCapacity(quotes) ==
  LET successfulQuotes == SelectSeq(quotes, LAMBDA q : ~q.failed)
  IN  IF Len(successfulQuotes) > 0
      THEN Num(successfulQuotes[Len(successfulQuotes)].amountUsd)
      ELSE Null

\* Variant of ImpactAt: a size without a quote has no impact.
ImpactAt_MissingIsZero(successfulQuotes, usd) ==
  LET baselineQuote == FindQuote(successfulQuotes, 1000)
      quote == FindQuote(successfulQuotes, usd)
  IN  IF baselineQuote # << >>
      THEN IF quote # << >>
           THEN PriceImpact(quote[1].effectiveRate, baselineQuote[1].effectiveRate)
           ELSE Num(0)
      ELSE Null

\* priceImpactBps at a size other than the baseline's
ImpactAt(successfulQuotes, usd) ==
  LET baselineQuote == FindQuote(successfulQuotes, 1000)
      quote == FindQuote(successfulQuotes, usd)
  IN  IF baselineQuote # << >> /\ quote # << >>
      THEN PriceImpact(quote[1].effectiveRate, baselineQuote[1].effectiveRate)
      ELSE Null

\* The record pushed for route number route after its probes gave quotes.
Analyse(route, quotes) ==
  LET successfulQuotes == SelectSeq(quotes, LAMBDA q : ~q.failed)
      rates == [i \in DOMAIN successfulQuotes |-> successfulQuotes[i].effectiveRate]
  IN  [route |-> route,
       maxCapacityUsd |-> MaxCapacity(quotes),
       optimalRangeUsd |-> IF Len(successfulQuotes) >= 2
                           THEN OptimalRange(successfulQuotes) ELSE Null,
       feeEfficiencyScore |-> IF Len(successfulQuotes) >= 2
                              THEN FeeEfficiency(rates) ELSE Null,
       priceImpactBps |->
         [at1k |-> IF FindQuote(successfulQuotes, 1000) # << >> THEN Num(0) ELSE Null,
          at10k |-> ImpactAt(successfulQuotes, 10000),
          at100k |-> ImpactAt(successfulQuotes, 100000)],
       quotes |-> quotes]

\* The payloads with an estimation a probe's request is answered with: the
\* amounts give the rates 1 and 1/2, or the destination amount is missing.
ProbeQuotes ==
  {[srcAmount |-> 1, amount |-> 1], [srcAmount |-> 2, amount |-> 1],
   [srcAmount |-> 1, amount |-> Undefined]}
\* What one attempt of fetchQuoteWithRetry ends in for a probe; "no-token" is
\* a payload whose estimation has no dstChainTokenOut.
ProbeAttemptOutcomes ==
  {[kind |-> k] : k \in {"5xx", "429", "4xx", "timeout", "error", "no-estimation",
                         "no-token"}}
    \cup {[kind |-> "payload", quote |-> q] : q \in ProbeQuotes}

IdleProbe == [pc |-> "idle", routes |-> 0, size |-> 0, attempt |-> 0, wakeAt |-> 0,
              quotes |-> << >>, intelligence |-> << >>]

\* The call goes on from record a (the probe loop about to ask for size
\* a.size, or no route left), the rate limiter's bucket being b: it returns
\* the list, or enters fetchQuoteWithRetry, whose first statement is
\* rateLimiter.acquire().
IntelligenceBegin(a, b) ==
  IF a.routes = 0
  THEN /\ intelRet' = a.intelligence
       /\ probe' = IdleProbe
  ELSE /\ probe' = IF Granted(b)
                   THEN [a EXCEPT !.pc = "fetching", !.attempt = 0, !.wakeAt = 0]
                   ELSE [a EXCEPT !.pc = "acquiring", !.attempt = 0,
                                  !.wakeAt = now + waitTime]
       /\ UNCHANGED intelRet
\* The bucket it leaves.
IntelligenceBucket(a, b) == IF a.routes = 0 THEN b ELSE AfterAcquire(b)

\* The same on the rate limiter as it is.
IntelligenceContinue(a) ==
  /\ IntelligenceBegin(a, Bucket)
  /\ BucketBecomes(IntelligenceBucket(a, Bucket))

\* The probe loop of a route is left: its record is pushed and the route loop
\* goes on.
RouteAnalysed(a) ==
  [a EXCEPT !.routes = a.routes - 1, !.size = 1, !.quotes = << >>,
            !.intelligence = Append(a.intelligence,
                                    Analyse(Len(a.intelligence) + 1, a.quotes))]

\* getRouteIntelligence(routes), n routes, up to its first suspension or its
\* return.
getRouteIntelligence(n) ==
  /\ probe.pc = "idle"
  /\ IntelligenceContinue([IdleProbe EXCEPT !.routes = n, !.size = 1])
  /\ UNCHANGED <<now, cbVars, ddVars, cacheVars, httpVars, maxTokens, waitTime,
                 acquirers, acquired, drainedAt, notIntelVars>>

\* The wait inside rateLimiter.acquire() ends and the request is sent.
ProbeAcquired ==
  /\ probe.pc = "acquiring"
  /\ now >= probe.wakeAt
  /\ acquireResume
  /\ probe' = [probe EXCEPT !.pc = "fetching", !.wakeAt = 0]
  /\ UNCHANGED <<now, cbVars, ddVars, cacheVars, httpVars, maxTokens, waitTime,
                 acquirers, acquired, drainedAt, intelRet, notIntelVars>>

\* Variant of Break: the probes go on after a failure.
Break_Never(q) == FALSE

\* break; // Stop probing at first failure
Break(q) == q.failed

\* The fetch of the current attempt settles: a retryable failure with
\* attempts left is followed by a sleep; otherwise fetchQuoteWithRetry
\* returns the payload or null. A payload with an estimation whose amounts
\* can be read is a successful quote, followed by the pause between probes;
\* anything else is a failed quote and ends the probes of the route.
ProbeFetched(o) ==
  LET a == probe
      sizeUsd == probeSizesUsd[a.size]
  IN
  /\ a.pc = "fetching"
  /\ IF Retryable(o) /\ a.attempt < QuoteMaxRetries
     THEN /\ probe' = [a EXCEPT !.pc = "sleeping",
                                !.wakeAt = now + RetryDelay(a.attempt)]
          /\ UNCHANGED <<tokens, lastRefill, intelRet>>
     ELSE LET q == IF o.kind = "payload"
                   THEN [amountUsd |-> sizeUsd,
                         effectiveRate |-> Quotient(Number(o.quote.amount),
                                                    Number(o.quote.srcAmount)),
                         failed |-> FALSE]
                   ELSE [amountUsd |-> sizeUsd, effectiveRate |-> Num(0),
                         failed |-> TRUE]
              pushed == [a EXCEPT !.quotes = Append(a.quotes, q)]
          IN  IF Break(q)
              THEN IntelligenceContinue(RouteAnalysed(pushed))
              ELSE /\ probe' = [pushed EXCEPT !.pc = "pausing", !.wakeAt = now + 200]
                   /\ UNCHANGED <<tokens, lastRefill, intelRet>>
  /\ UNCHANGED <<now, cbVars, ddVars, cacheVars, httpVars, maxTokens, waitTime,
                 acquirers, acquired, drainedAt, notIntelVars>>

\* The sleep before a retry ends: attempt++, and the next iteration begins
\* with rateLimiter.acquire().
ProbeSleepEnds ==
  LET a == probe IN
  /\ a.pc = "sleeping"
  /\ now >= a.wakeAt
  /\ BucketBecomes(AfterAcquire(Bucket))
  /\ probe' = IF Granted(Bucket)
              THEN [a EXCEPT !.pc = "fetching", !.attempt = a.attempt + 1, !.wakeAt = 0]
              ELSE [a EXCEPT !.pc = "acquiring", !.attempt = a.attempt + 1,
                             !.wakeAt = now + waitTime]
  /\ UNCHANGED <<now, cbVars, ddVars, cacheVars, httpVars, maxTokens, waitTime,
                 acquirers, acquired, drainedAt, intelRet, notIntelVars>>

\* The pause after a successful probe ends: the next size is asked for, or
\* the sizes are through.
ProbePauseEnds ==
  LET a == probe IN
  /\ a.pc = "pausing"
  /\ now >= a.wakeAt
  /\ IF a.size = Len(probeSizesUsd)
     THEN IntelligenceContinue(RouteAnalysed(a))
     ELSE IntelligenceContinue([a EXCEPT !.size = a.size + 1])
  /\ UNCHANGED <<now, cbVars, ddVars, cacheVars, httpVars, maxTokens, waitTime,
                 acquirers, acquired, drainedAt, notIntelVars>>

\* ---- DecimalUtils.calculateEffectiveRate (decimal.ts, part_008:12-34)
\* A string as the sequence of its characters. "?" stands for any character
\* that no numeric literal contains.
AmountChars == {"-", "0", "1", "3", "?"}
MaxAmountLen == 2
RECURSIVE StringsOfLen(_)
StringsOfLen(n) ==
  IF n = 0 THEN {<< >>}
  ELSE {Append(s, c) : s \in StringsOfLen(n - 1), c \in AmountChars}
AmountStrings == UNION {StringsOfLen(n) : n \in 0..MaxAmountLen}
\* Values of a decimals argument.
DecimalsRange == {0 - 1, 0, 1, 2}

IsDigit(c) == c \in {"0", "1", "3"}
DigitValue(c) == IF c = "0" THEN 0 ELSE IF c = "1" THEN 1 ELSE 3
RECURSIVE DigitsValue(_)
DigitsValue(s) ==
  IF s = << >> THEN 0
  ELSE 10 * DigitsValue(SubSeq(s, 1, Len(s) - 1)) + DigitValue(s[Len(s)])
RECURSIVE Pow10(_)
Pow10(n) == IF n = 0 THEN 1 ELSE 10 * Pow10(n - 1)

\* new Decimal(v) for a string: an optional "-" and then digits; any other
\* string makes the constructor throw a DecimalError.
Unsigned(s) == IF s # << >> /\ s[1] = "-" THEN Tail(s) ELSE s
IsNumeric(s) ==
  LET u == Unsigned(s) IN u # << >> /\ \A i \in DOMAIN u : IsDigit(u[i])
Decimal(s) ==
  Num((IF s[1] = "-" THEN 0 - 1 ELSE 1) * DigitsValue(Unsigned(s)))

\* A fraction whose denominator, in lowest terms, is a power of two. With the
\* numerators of this model (far below 2^53) these are the quotients that a
\* double holds exactly.
RECURSIVE PowerOfTwo(_)
PowerOfTwo(n) == n = 1 \/ (n > 1 /\ n % 2 = 0 /\ PowerOfTwo(n \div 2))
Representable(q) == PowerOfTwo(q.den)

\* Decimal.toNumber() of a quotient q that Decimal.div has rounded to 20
\* significant digits: the double nearest to q, which is q itself (exact) iff
\* q is representable.
ToNumber(q) == [value |-> q, exact |-> Representable(q)]

Thrown(message) == [kind |-> "error", message |-> message]
Returned(number) == [kind |-> "number", number |-> number]

\* Variant of calculateEffectiveRate: fromDecimal.isZero() is not tested, so
\* that a zero fromAmount divides through.
calculateEffectiveRate_NoZeroTest(fromAmount, toAmount, fromDecimals, toDecimals) ==
  IF fromAmount = << >> \/ toAmount = << >> \/ fromDecimals < 0 \/ toDecimals < 0
  THEN Thrown("Invalid input parameters for rate calculation")
  ELSE IF ~IsNumeric(fromAmount) \/ ~IsNumeric(toAmount)
  THEN Thrown("Decimal calculation failed: [DecimalError] Invalid argument")
  ELSE LET fromDecimal == Quotient(Decimal(fromAmount), Num(Pow10(fromDecimals)))
           toDecimal == Quotient(Decimal(toAmount), Num(Pow10(toDecimals)))
       IN  Returned(ToNumber(Quotient(toDecimal, fromDecimal)))

\* DecimalUtils.calculateEffectiveRate(fromAmount, toAmount, fromDecimals,
\* toDecimals): the number returned or the error thrown.
calculateEffectiveRate(fromAmount, toAmount, fromDecimals, toDecimals) ==
  IF fromAmount = << >> \/ toAmount = << >> \/ fromDecimals < 0 \/ toDecimals < 0
  THEN Thrown("Invalid input parameters for rate calculation")
  ELSE IF ~IsNumeric(fromAmount) \/ ~IsNumeric(toAmount)
  THEN Thrown("Decimal calculation failed: [DecimalError] Invalid argument")
  ELSE LET fromDecimal == Quotient(Decimal(fromAmount), Num(Pow10(fromDecimals)))
           toDecimal == Quotient(Decimal(toAmount), Num(Pow10(toDecimals)))
       IN  IF fromDecimal.num = 0
           THEN Thrown("Decimal calculation failed: From amount cannot be zero")
           ELSE Returned(ToNumber(Quotient(toDecimal, fromDecimal)))

NoCall == [fromAmount |-> << >>, toAmount |-> << >>, fromDecimals |-> 0,
           toDecimals |-> 0, outcome |-> [kind |-> "none"]]
\* A call that has been entered with its arguments.
Entered(fromAmount, toAmount, fromDecimals, toDecimals) ==
  [fromAmount |-> fromAmount, toAmount |-> toAmount, fromDecimals |-> fromDecimals,
   toDecimals |-> toDecimals, outcome |-> [kind |-> "pending"]]
CallOf(fromAmount, toAmount, fromDecimals, toDecimals) ==
  [fromAmount |-> fromAmount, toAmount |-> toAmount, fromDecimals |-> fromDecimals,
   toDecimals |-> toDecimals,
   outcome |-> calculateEffectiveRate(fromAmount, toAmount, fromDecimals, toDecimals)]

\* ---- getRates: from the quote in hand to rates.push (part_006:899-941)
\* The amounts a quote's tokens can carry.
QuoteAmounts == {<< >>, <<"0">>, <<"1">>, <<"3">>, <<"-", "1">>, <<"?">>}
\* estimation.srcChainTokenIn and estimation.dstChainTokenOut: amount may be
\* missing, recommendedAmount is optional.
SrcTokens == {[symbol |-> "src"]} \cup {[symbol |-> "src", amount |-> a] : a \in QuoteAmounts}
DstTokens ==
  {[symbol |-> "dst"]}
    \cup {[symbol |-> "dst", amount |-> a] : a \in QuoteAmounts}
    \cup {[symbol |-> "dst", amount |-> a, recommendedAmount |-> r] :
            a \in QuoteAmounts, r \in QuoteAmounts}
\* The quote payloads: with an estimation, or without.
RatePayloads ==
  {[orderId |-> "id"]}
    \cup {[orderId |-> "id",
           estimation |-> [srcChainTokenIn |-> s, dstChainTokenOut |-> d]] :
            s \in SrcTokens, d \in DstTokens}
\* A route's token decimals.
RateRoutes == {[source |-> [decimals |-> s], destination |-> [decimals |-> d]] :
                 s \in {0, 1}, d \in {0, 1}}

\* srcToken.amount
FromAmountOf(quote) ==
  LET srcToken == quote.estimation.srcChainTokenIn
  IN  IF "amount" \in DOMAIN srcToken THEN srcToken.amount ELSE << >>
\* dstToken.recommendedAmount ?? dstToken.amount. A missing amount is written
\* as the empty string, which `!toAmount` treats in the same way.
ToAmountOf(quote) ==
  LET dstToken == quote.estimation.dstChainTokenOut
  IN  IF "recommendedAmount" \in DOMAIN dstToken THEN dstToken.recommendedAmount
      ELSE IF "amount" \in DOMAIN dstToken THEN dstToken.amount ELSE << >>

\* The call of calculateEffectiveRate that the iteration makes, if it gets
\* that far.
RateCall(quote, route) ==
  IF "estimation" \notin DOMAIN quote THEN NoCall
  ELSE IF FromAmountOf(quote) = << >> \/ ToAmountOf(quote) = << >> THEN NoCall
  ELSE CallOf(FromAmountOf(quote), ToAmountOf(quote), route.source.decimals,
              route.destination.decimals)

\* The iteration's statements from the quote in hand on: the entry pushed, or
\* the error that lands in the catch block.
RateOf(quote, route) ==
  IF "estimation" \notin DOMAIN quote
  THEN [pushed |-> FALSE, error |-> "Invalid quote response structure"]
  ELSE IF FromAmountOf(quote) = << >> \/ ToAmountOf(quote) = << >>
  THEN [pushed |-> FALSE, error |-> "Missing amount data in quote estimation"]
  ELSE LET call == RateCall(quote, route)
       IN  IF call.outcome.kind = "error"
           THEN [pushed |-> FALSE, error |-> call.outcome.message]
           ELSE [pushed |-> TRUE,
                 entry |-> [source |-> route.source, destination |-> route.destination,
                            amountIn |-> FromAmountOf(quote),
                            amountOut |-> ToAmountOf(quote),
                            effectiveRate |-> call.outcome.number]]

NoPair == [quote |-> [orderId |-> "none"],
           route |-> [source |-> [decimals |-> 0], destination |-> [decimals |-> 0]],
           result |-> [pushed |-> FALSE, error |-> "none"]]
\* An iteration that has its quote in hand.
QuoteInHand(quote, route) ==
  [quote |-> quote, route |-> route, result |-> [pushed |-> FALSE, error |-> "pending"]]

\* A call of DecimalUtils.calculateEffectiveRate, made directly, runs.
CalculateEffectiveRate ==
  /\ effRate.outcome.kind = "pending"
  /\ effRate' = CallOf(effRate.fromAmount, effRate.toAmount, effRate.fromDecimals,
                       effRate.toDecimals)
  /\ UNCHANGED <<pairRet, notDecVars>>

\* One iteration of getRates' loops runs from the quote in hand to its end.
RateFromQuote ==
  /\ pairRet.result = QuoteInHand(pairRet.quote, pairRet.route).result
  /\ effRate' = RateCall(pairRet.quote, pairRet.route)
  /\ pairRet' = [pairRet EXCEPT !.result = RateOf(pairRet.quote, pairRet.route)]
  /\ UNCHANGED notDecVars

\* ---- getSnapshot
\* The call of each method that belongs to the snapshot in progress.
SnapshotCall == 1

\* The parameters of a call: n routes (copies of one route, between two
\* assets of chain 1), the notionals, the windows (includeWindows || ["24h"])
\* and includeIntelligence.
SnapshotRequests ==
  {[n |-> n, notionals |-> m, windows |-> <<"24h">>, includeIntelligence |-> FALSE] :
     n \in {0, 1}, m \in {<< >>, <<1>>, <<InvalidNotional>>}}

\* new Set(routes.flatMap(route => [route.source.chainId, route.destination.chainId]))
ChainsOfRoutes(n) == IF n = 0 THEN << >> ELSE <<"1">>

IdleSnapshot == [pc |-> "idle", request |-> [n |-> 0, notionals |-> << >>, windows |-> << >>,
                                             includeIntelligence |-> FALSE]]
NoUpstream == [volumes |-> FALSE, rates |-> {}, liquidity |-> 0, listedAssets |-> {}]
NoSnapRet == [status |-> "none", error |-> "none", request |-> IdleSnapshot.request,
              volumes |-> << >>, rates |-> << >>, liquidity |-> << >>,
              listedAssets |-> << >>, upstream |-> NoUpstream]

\* Variant of SnapshotRejected: only the routes are tested.
SnapshotRejected_RoutesOnly(request) == request.n = 0

\* if (!params?.routes?.length || !params?.notionals?.length) return Effect.fail(...)
SnapshotRejected(request) == request.n = 0 \/ request.notionals = << >>

\* Variant of SectionsIdle: the volumes alone are waited for.
SectionsIdle_VolumesOnly == \A c \in VolCalls : volCalls[c].pc = "idle"

\* No call of a method is in progress.
SectionsIdle ==
  /\ \A c \in VolCalls : volCalls[c].pc = "idle"
  /\ \A c \in RateCalls : rateCalls[c].pc = "idle"
  /\ \A c \in LiqCalls : liqCalls[c].pc = "idle"
  /\ \A c \in AssetCalls : assetCalls[c].pc = "idle"

\* getSnapshot(params), and the effect it returns run at once: parameters
\* without routes or notionals fail; otherwise the elements of the array
\* given to Promise.all are evaluated in order, each call running up to its
\* first suspension on the rate limiter the one before it left. A getRates
\* that throws makes Promise.all reject while the other calls go on.
getSnapshot(request) ==
  /\ snap.pc = "idle"
  /\ IF SnapshotRejected(request)
     THEN /\ snapRet' = [NoSnapRet EXCEPT !.status = "failed",
                                          !.error = "Routes and notionals are required",
                                          !.request = request]
          /\ UNCHANGED <<snap, now, cbVars, ddVars, cacheVars, httpVars, rlVars,
                         volVars, liqVars, assetVars, rateVars, intelVars, decVars>>
     ELSE LET liq == [IdleLiqCall EXCEPT !.routes = request.n]
              assets == [IdleAssetCall EXCEPT !.chains = ChainsOfRoutes(request.n)]
              b1 == VolumesBucket(Bucket)
              b2 == LiquidityBucket(liq, b1)
              b3 == AssetsBucket(assets, b2)
          IN  /\ VolumesBegin(SnapshotCall, request.windows, Bucket)
              /\ IF RatesRejected(request)
                 THEN UNCHANGED <<cbVars, ddVars, cacheVars, rateVars>>
                 ELSE RatesBegin(SnapshotCall, request)
              /\ LiquidityBegin(SnapshotCall, liq, b1)
              /\ AssetsBegin(SnapshotCall, assets, b2)
              /\ BucketBecomes(b3)
              /\ snap' = [pc |-> IF RatesRejected(request) THEN "rejected" ELSE "running",
                          request |-> request]
              /\ snapRet' = NoSnapRet
              /\ UNCHANGED <<now, httpVars, maxTokens, waitTime, acquirers, acquired,
                             drainedAt, volumeCache, liqRet, tokenListCache, intelVars,
                             decVars>>

\* The snapshot made of the four results.
SnapshotOf(request) ==
  [status |-> "ok", error |-> "none", request |-> request,
   volumes |-> volRet.result, rates |-> rateRet.rates,
   liquidity |-> liqList.liquidity, listedAssets |-> assetRet.assets,
   upstream |-> [volumes |-> volRet.data # Null, rates |-> rateRet.obtained,
                 liquidity |-> liqList.quoted, listedAssets |-> assetRet.expected]]

\* Variant of IntelligenceWanted: the prober runs for every snapshot.
IntelligenceWanted_Always(request) == TRUE

\* if (params.includeIntelligence)
IntelligenceWanted(request) == request.includeIntelligence

\* The continuation of `await Promise.all([...])`: a rejection is caught,
\* wrapped and thrown, and the effect fails; otherwise the four results make
\* the snapshot, after getRouteIntelligence has been called and awaited if
\* includeIntelligence is set.
SnapshotSettles ==
  /\ IF snap.pc = "rejected"
     THEN /\ snapRet' = [NoSnapRet EXCEPT !.status = "failed",
                                          !.error = "Failed to fetch snapshot",
                                          !.request = snap.request]
          /\ snap' = IdleSnapshot
          /\ UNCHANGED <<tokens, lastRefill, intelVars>>
     ELSE /\ snap.pc = "running"
          /\ SectionsIdle
          /\ IF IntelligenceWanted(snap.request)
             THEN /\ IntelligenceContinue([IdleProbe EXCEPT !.routes = snap.request.n,
                                                            !.size = 1])
                  /\ snap' = [snap EXCEPT !.pc = "probing"]
                  /\ UNCHANGED snapRet
             ELSE /\ snapRet' = SnapshotOf(snap.request)
                  /\ snap' = IdleSnapshot
                  /\ UNCHANGED <<tokens, lastRefill, intelVars>>
  /\ UNCHANGED <<now, cbVars, ddVars, cacheVars, httpVars, maxTokens, waitTime,
                 acquirers, acquired, drainedAt, volVars, liqVars, assetVars, rateVars,
                 decVars>>

\* The continuation of `await this.getRouteIntelligence(...)`: the snapshot
\* gets the key routeIntelligence.
IntelligenceSettles ==
  /\ snap.pc = "probing"
  /\ probe.pc = "idle"
  /\ snapRet' = [status |-> "ok", error |-> "none", request |-> snap.request,
                 volumes |-> volRet.result, rates |-> rateRet.rates,
                 liquidity |-> liqList.liquidity, listedAssets |-> assetRet.assets,
                 upstream |-> SnapshotOf(snap.request).upstream,
                 routeIntelligence |-> intelRet]
  /\ snap' = IdleSnapshot
  /\ UNCHANGED <<now, cbVars, ddVars, cacheVars, httpVars, rlVars, volVars, liqVars,
                 assetVars, rateVars, intelVars, decVars>>

\* The timers set by rateLimiter.acquire(), by the sleeps before a retry and
\* by the pauses between probes.
Timers ==
  {volCalls[c].wakeAt : c \in {d \in VolCalls : volCalls[d].pc = "acquiring"}}
    \cup {assetCalls[c].wakeAt : c \in {d \in AssetCalls : assetCalls[d].pc = "acquiring"}}
    \cup {liqCalls[c].wakeAt :
            c \in {d \in LiqCalls : liqCalls[d].pc \in {"acquiring", "sleeping"}}}
    \cup (IF probe.pc \in {"acquiring", "sleeping", "pausing"}
          THEN {probe.wakeAt} ELSE {})

\* Time passes up to the next timer.
TimerFires ==
  /\ \E t \in Timers : /\ t > now
                       /\ \A u \in Timers : t <= u
                       /\ now' = t
  /\ UNCHANGED <<cbVars, ddVars, cacheVars, httpVars, rlVars, svcVars>>

\* The service's methods: the caches are empty and no call is in progress.
MethodsIdle ==
  /\ volumeCache = NoVolumeCache
  /\ volCalls = [c \in VolCalls |-> IdleVolCall]
  /\ volRet = NoVolRet
  /\ liqRet = NoLiqRet
  /\ liqCalls = [c \in LiqCalls |-> IdleLiqCall]
  /\ liqList = NoLiqList
  /\ tokenListCache = [ch \in Chains |-> NoTokenList]
  /\ assetCalls = [c \in AssetCalls |-> IdleAssetCall]
  /\ assetRet = NoAssetRet
  /\ rateCalls = [c \in RateCalls |-> IdleRateCall]
  /\ rateRet = NoRateRet
  /\ snap = IdleSnapshot
  /\ snapRet = NoSnapRet
  /\ probe = IdleProbe
  /\ intelRet = << >>

\* new DataProviderService(...)
DataProviderServiceNew ==
  /\ MethodsIdle
  /\ effRate = NoCall
  /\ pairRet = NoPair

\* ======================================================== specifications
\* The instances the service constructs (service.ts fields).
quoteCache == TTLCacheNew(5 * 60 * 1000, 1000)
deduplicator == RequestDeduplicatorInit
dlnCircuit == CircuitBreakerNew(5, 60000, 2)
limiter == LimiterNew(5)
rateLimiter == RateLimiterNew(10, 100)

\* A breaker with any thresholds and cooldown, called by concurrent callers.
InitBreaker ==
  /\ now = 0
  /\ rateLimiter
  /\ DataProviderServiceNew
  /\ \E ft \in 1..MaxFailureThreshold, cd \in 1..MaxCooldown,
        st \in 1..MaxSuccessThreshold : CircuitBreakerNew(ft, cd, st)
  /\ deduplicator
  /\ quoteCache
  /\ limiter

NextBreaker ==
  \/ Tick(MaxTime)
  \/ \E c \in Callers : execute(c)
  \/ \E c \in Callers : SettleSuccess(c)
  \/ \E c \in Callers : SettleFailure(c)
  \/ reset

SpecBreaker == InitBreaker /\ [][NextBreaker]_vars

\* The service's deduplicator (part_006:661), called by concurrent clients.
InitDedup ==
  /\ now = 0
  /\ rateLimiter
  /\ DataProviderServiceNew
  /\ dlnCircuit
  /\ deduplicator
  /\ quoteCache
  /\ limiter

\* deduplicate calls and settlements; clear() is never called by the service.
NextDedup ==
  \/ \E c \in Clients, k \in Keys : deduplicate(c, k)
  \/ \E o \in OpIds, outcome \in {"ok", "err"} : OperationSettles(o, outcome)
  \/ \E c \in Clients : ClientResumes(c)

SpecDedup == InitDedup /\ [][NextDedup]_vars

\* The same with clear() called at any moment.
NextDedupClear ==
  \/ NextDedup
  \/ clear

SpecDedupClear == InitDedup /\ [][NextDedupClear]_vars

\* A cache with any ttl and size bound, under any sequence of calls.
InitCache ==
  /\ now = 0
  /\ rateLimiter
  /\ DataProviderServiceNew
  /\ dlnCircuit
  /\ deduplicator
  /\ \E ttl \in 1..MaxTtl, size \in 1..MaxCacheSize : TTLCacheNew(ttl, size)
  /\ limiter

NextCache ==
  \/ Tick(MaxCacheTime)
  \/ \E k \in CacheKeys : get(k)
  \/ \E k \in CacheKeys : has(k)
  \/ \E k \in CacheKeys, v \in Values : set(k, v)
  \/ cacheClear
  \/ stats

SpecCache == InitCache /\ [][NextCache]_vars

\* Concurrent fetchWithRetry calls with any arguments, against a server that
\* may answer each attempt in any way.
InitHttp ==
  /\ now = 0
  /\ rateLimiter
  /\ DataProviderServiceNew
  /\ dlnCircuit
  /\ deduplicator
  /\ quoteCache
  /\ \E mc \in 1..MaxMaxConcurrent : LimiterNew(mc)

NextHttp ==
  \/ \E r \in Requests, url \in {"valid", "empty", "malformed"},
        mr \in (0 - 1)..MaxRetries, bd \in {0 - 1, 1000} : fetchWithRetry(r, url, mr, bd)
  \/ \E r \in Requests : LimiterStarts(r)
  \/ MinTimePasses
  \/ \E r \in Requests, o \in Outcomes : AttemptSettles(r, o)
  \/ \E r \in Requests : SleepEnds(r)

SpecHttp == InitHttp /\ [][NextHttp]_vars

\* Every fetch() settles (a response, an error, or the 30 s abort), every
\* setTimeout fires and the limiter starts a job once a slot is free and
\* minTime has passed.
SpecHttpFair == SpecHttp /\ WF_vars(NextHttp)

\* A rate limiter with any capacity and rate, called by concurrent callers.
InitRateLimiter ==
  /\ now = 0
  /\ DataProviderServiceNew
  /\ dlnCircuit
  /\ deduplicator
  /\ quoteCache
  /\ limiter
  /\ \E mt \in 1..MaxTokens, wt \in 1..MaxWaitTime : RateLimiterNew(mt, wt)

NextRateLimiter ==
  \/ Tick(MaxRlTime)
  \/ \E c \in Acquirers : acquire(c)
  \/ \E c \in Acquirers : WaitEnds(c)

SpecRateLimiter == InitRateLimiter /\ [][NextRateLimiter]_vars

\* A service constructed with maxRequestsPerSecond = 1.
InitService ==
  /\ now = 0
  /\ dlnCircuit
  /\ deduplicator
  /\ quoteCache
  /\ limiter
  /\ RateLimiterNew(1, 1000)
  /\ DataProviderServiceNew

\* getVolumes called concurrently, against an aggregator that may answer in
\* any way.
NextVolumes ==
  \/ ServiceTick({waitTime, VOLUME_CACHE_TTL})
  \/ \E c \in VolCalls, windows \in WindowLists : getVolumes(c, windows)
  \/ \E c \in VolCalls : VolumesAcquired(c)
  \/ \E c \in VolCalls, o \in VolumeOutcomes : VolumesFetched(c, o)

SpecVolumes == InitService /\ [][NextVolumes]_vars

\* getLiquidityDepth against a provider that may answer a route's quote
\* request with any amounts.
NextLiquidity == \E quote \in LiquidityQuotes : LiquidityForRoute(quote)

SpecLiquidity == InitService /\ [][NextLiquidity]_vars

\* getLiquidityDepth called at time 0 for one or two routes on a fresh
\* service, against a quote endpoint that may end every attempt of
\* fetchQuoteWithRetry in any way, a payload with an estimation being one
\* that gives an entry or one whose amounts are empty; time passes from timer
\* to timer.
QuoteRetryOutcomes ==
  {o \in QuoteAttemptOutcomes :
     o.kind = "payload" =>
       o.quote \in [srcAmount : {EmptyString, 1}, amount : {1},
                    recommendedAmount : {1}, maxTheoreticalAmount : {1}]}
NextQuoteRetry ==
  \/ \E c \in LiqCalls, n \in 1..MaxQuoteRoutes : now = 0 /\ getLiquidityDepth(c, n)
  \/ \E c \in LiqCalls : LiquidityAcquired(c)
  \/ \E c \in LiqCalls, o \in QuoteRetryOutcomes : LiquidityFetched(c, o)
  \/ \E c \in LiqCalls : LiquiditySleepEnds(c)
  \/ TimerFires

SpecQuoteRetry == InitService /\ [][NextQuoteRetry]_vars

\* getListedAssets called concurrently, against a token-list endpoint that
\* may answer in any way.
NextAssets ==
  \/ ServiceTick({waitTime, TOKEN_LIST_TTL})
  \/ \E c \in AssetCalls, chainIds \in ChainLists : getListedAssets(c, chainIds)
  \/ \E c \in AssetCalls : AssetsAcquired(c)
  \/ \E c \in AssetCalls, o \in TokenListOutcomes : AssetsFetched(c, o)

SpecAssets == InitService /\ [][NextAssets]_vars

\* getRates called by one caller after another, against a quote endpoint that
\* may answer in any way; time passes by the breaker's cooldown or past a
\* quote's lifetime.
NextRates ==
  \/ ServiceTick({cooldownMs, ttlMs + 1})
  \/ \E c \in RateCalls, request \in RateRequests :
        /\ \A d \in RateCalls : rateCalls[d].pc = "idle"
        /\ getRates(c, request)
  \/ \E o \in OpIds, outcome \in QuoteOutcomes : OperationSettles(o, outcome)
  \/ \E c \in RateCalls : CircuitSettles(c)
  \/ \E c \in RateCalls : RatesResume(c)

SpecRates == InitService /\ [][NextRates]_vars

\* getRates called by concurrent callers for the same pairs, so that callers
\* share the deduplicated quote request of a pair.
SharedRequests == {[n |-> 1, notionals |-> m] : m \in {<<1>>, <<1, 2>>}}
NextRatesShared ==
  \/ \E c \in RateCalls, request \in SharedRequests : getRates(c, request)
  \/ \E o \in OpIds, outcome \in {"valid", "failed"} : OperationSettles(o, outcome)
  \/ \E c \in RateCalls : CircuitSettles(c)
  \/ \E c \in RateCalls : RatesResume(c)

SpecRatesShared == InitService /\ [][NextRatesShared]_vars

\* What the sources answer to the calls of a snapshot: the aggregator is down
\* or gives all figures; a quote is well formed or its request fails; a
\* liquidity quote attempt gets a 5xx, a 4xx or a payload; a token list
\* request fails or lists one token.
SnapshotVolumeOutcomes ==
  {o \in VolumeOutcomes :
     \/ o.kind = "network"
     \/ /\ o.kind = "json"
        /\ Undefined \notin {o.raw.lastDailyVolume, o.raw.weeklyVolume,
                              o.raw.lastWeeklyVolume, o.raw.monthlyVolume}}
SnapshotQuoteOutcomes == {"valid", "failed"}
SnapshotAttemptOutcomes ==
  {[kind |-> "5xx"], [kind |-> "4xx"],
   [kind |-> "payload",
    quote |-> [srcAmount |-> 1, amount |-> 1, recommendedAmount |-> 1,
               maxTheoreticalAmount |-> 1]]}
SnapshotTokenListOutcomes ==
  {[kind |-> "network"], [kind |-> "tokens", tokens |-> <<"a">>]}

\* The service after five quote requests of getRates failed in a row (two
\* calls with two routes and the notionals 1 and 2): the breaker is OPEN.
ServiceTripped ==
  /\ now = 0
  /\ limiter
  /\ RateLimiterNew(1, 1000)
  /\ ttlMs = 5 * 60 * 1000
  /\ maxSize = 1000
  /\ cache = << >>
  /\ ret = [op |-> "get", key |-> 2, result |-> Absent, evicted |-> NoKey]
  /\ insertOrder = << >>
  /\ failureThreshold = 5
  /\ cooldownMs = 60000
  /\ successThreshold = 2
  /\ state = "OPEN"
  /\ failureCount = 5
  /\ successCount = 0
  /\ nextAttemptTime = 60000
  /\ calls = [c \in Callers |-> IdleCall]
  /\ consecFailures = 5
  /\ trialSuccesses = 0
  /\ pending = [k \in Keys |-> NoOp]
  /\ ops = [o \in OpIds |-> IF o = 1 THEN [key |-> 1, status |-> "failed"]
                            ELSE [key |-> 0, status |-> "unused"]]
  /\ nextOp = 1
  /\ clients = [c \in Clients |-> IdleClient]
  /\ volumeCache = NoVolumeCache
  /\ volCalls = [c \in VolCalls |-> IdleVolCall]
  /\ volRet = NoVolRet
  /\ liqRet = NoLiqRet
  /\ liqCalls = [c \in LiqCalls |-> IdleLiqCall]
  /\ liqList = NoLiqList
  /\ tokenListCache = [ch \in Chains |-> NoTokenList]
  /\ assetCalls = [c \in AssetCalls |-> IdleAssetCall]
  /\ assetRet = NoAssetRet
  /\ rateCalls = [c \in RateCalls |-> IdleRateCall]
  /\ rateRet = [n |-> 2, notionals |-> <<1, 2>>, rates |-> << >>, obtained |-> {}]
  /\ snap = IdleSnapshot
  /\ snapRet = NoSnapRet
  /\ probe = IdleProbe
  /\ intelRet = << >>
  /\ effRate = NoCall
  /\ pairRet = NoPair

\* The service after a getVolumes call whose request failed with a network
\* error: the rate limiter's only token is taken.
ServiceDrained ==
  /\ now = 0
  /\ dlnCircuit
  /\ deduplicator
  /\ quoteCache
  /\ limiter
  /\ maxTokens = 1
  /\ waitTime = 1000
  /\ tokens = 0
  /\ lastRefill = 0
  /\ acquirers = [c \in Acquirers |-> IdleAcquirer]
  /\ acquired = << >>
  /\ drainedAt = NoTime
  /\ volumeCache = NoVolumeCache
  /\ volCalls = [c \in VolCalls |-> IdleVolCall]
  /\ volRet = VolumesReturn(<<"24h">>, Null, "network")
  /\ liqRet = NoLiqRet
  /\ liqCalls = [c \in LiqCalls |-> IdleLiqCall]
  /\ liqList = NoLiqList
  /\ tokenListCache = [ch \in Chains |-> NoTokenList]
  /\ assetCalls = [c \in AssetCalls |-> IdleAssetCall]
  /\ assetRet = NoAssetRet
  /\ rateCalls = [c \in RateCalls |-> IdleRateCall]
  /\ rateRet = NoRateRet
  /\ snap = IdleSnapshot
  /\ snapRet = NoSnapRet
  /\ probe = IdleProbe
  /\ intelRet = << >>
  /\ effRate = NoCall
  /\ pairRet = NoPair

\* A service just constructed, one whose breaker has opened, or one whose
\* rate limiter is empty.
InitSnapshot == InitService \/ ServiceTripped \/ ServiceDrained

\* What goes on by itself once a snapshot's calls are made.
SnapshotProgress ==
  \/ SnapshotSettles
  \/ TimerFires
  \/ \E c \in VolCalls : VolumesAcquired(c)
  \/ \E c \in VolCalls, o \in SnapshotVolumeOutcomes : VolumesFetched(c, o)
  \/ \E o \in OpIds, outcome \in SnapshotQuoteOutcomes : OperationSettles(o, outcome)
  \/ \E c \in RateCalls : CircuitSettles(c)
  \/ \E c \in RateCalls : RatesResume(c)
  \/ \E c \in LiqCalls : LiquidityAcquired(c)
  \/ \E c \in LiqCalls, o \in SnapshotAttemptOutcomes : LiquidityFetched(c, o)
  \/ \E c \in LiqCalls : LiquiditySleepEnds(c)
  \/ \E c \in AssetCalls : AssetsAcquired(c)
  \/ \E c \in AssetCalls, o \in SnapshotTokenListOutcomes : AssetsFetched(c, o)

\* getSnapshot called by one caller after another, each running the effect it
\* gets: with routes and notionals at time 0, without them at any time. Time
\* passes from timer to timer.
NextSnapshot ==
  \/ \E request \in SnapshotRequests :
        /\ now = 0 \/ request.n = 0 \/ request.notionals = << >>
        /\ SectionsIdle
        /\ getSnapshot(request)
  \/ SnapshotProgress

SpecSnapshot == InitSnapshot /\ [][NextSnapshot]_vars

\* Every fetch settles (a response, an error or the abort after the timeout),
\* every timer fires and every continuation that is ready runs.
SpecSnapshotFair == SpecSnapshot /\ WF_vars(NextSnapshot)

\* What the sources answer to the calls of a snapshot with or without route
\* intelligence: the aggregator and the token lists are down; a quote for a
\* rate is well formed or its request fails; a liquidity quote and a probe
\* get a 4xx or a payload.
IntelRequests ==
  {[n |-> n, notionals |-> <<1>>, windows |-> <<"24h">>, includeIntelligence |-> i] :
     n \in {1, 2}, i \in BOOLEAN}
IntelAttemptOutcomes ==
  {[kind |-> "4xx"],
   [kind |-> "payload",
    quote |-> [srcAmount |-> 1, amount |-> 1, recommendedAmount |-> 1,
               maxTheoreticalAmount |-> 1]]}

\* getSnapshot called once at time 0, on a service whose rate limiter is
\* empty; time passes from timer to timer.
NextIntelligence ==
  \/ \E request \in IntelRequests :
        now = 0 /\ SectionsIdle /\ probe.pc = "idle" /\ getSnapshot(request)
  \/ SnapshotSettles
  \/ IntelligenceSettles
  \/ TimerFires
  \/ \E c \in VolCalls : VolumesAcquired(c)
  \/ \E c \in VolCalls : VolumesFetched(c, [kind |-> "network"])
  \/ \E o \in OpIds, outcome \in SnapshotQuoteOutcomes : OperationSettles(o, outcome)
  \/ \E c \in RateCalls : CircuitSettles(c)
  \/ \E c \in RateCalls : RatesResume(c)
  \/ \E c \in LiqCalls : LiquidityAcquired(c)
  \/ \E c \in LiqCalls, o \in IntelAttemptOutcomes : LiquidityFetched(c, o)
  \/ \E c \in AssetCalls : AssetsAcquired(c)
  \/ \E c \in AssetCalls : AssetsFetched(c, [kind |-> "network"])
  \/ ProbeAcquired
  \/ \E o \in IntelAttemptOutcomes : ProbeFetched(o)
  \/ ProbePauseEnds

SpecIntelligence == ServiceDrained /\ [][NextIntelligence]_vars

\* getRouteIntelligence called once for one route on a fresh service, against
\* a quote endpoint that may answer every request in any way that is not
\* followed by a retry.
NextProber ==
  \/ now = 0 /\ getRouteIntelligence(1)
  \/ ProbeAcquired
  \/ \E o \in {x \in ProbeAttemptOutcomes : ~Retryable(x)} : ProbeFetched(o)
  \/ ProbePauseEnds
  \/ TimerFires

SpecProber == InitService /\ [][NextProber]_vars

\* getRouteIntelligence called once for one route on a fresh service, against
\* a quote endpoint that answers a request with a 5xx, a 4xx, a payload
\* without dstChainTokenOut or a payload whose amounts give the rate 1.
NextProberRetry ==
  \/ now = 0 /\ getRouteIntelligence(1)
  \/ ProbeAcquired
  \/ \E o \in {[kind |-> "5xx"], [kind |-> "4xx"], [kind |-> "no-token"],
                [kind |-> "payload", quote |-> [srcAmount |-> 1, amount |-> 1]]} :
        ProbeFetched(o)
  \/ ProbeSleepEnds
  \/ ProbePauseEnds
  \/ TimerFires

SpecProberRetry == InitService /\ [][NextProberRetry]_vars

\* calculateEffectiveRate called with any strings and decimals, or an
\* iteration of getRates that has any quote payload in hand.
InitDecimal ==
  /\ now = 0
  /\ dlnCircuit
  /\ deduplicator
  /\ quoteCache
  /\ limiter
  /\ RateLimiterNew(1, 1000)
  /\ MethodsIdle
  /\ \/ /\ effRate \in {Entered(fromAmount, toAmount, fromDecimals, toDecimals) :
                          fromAmount \in AmountStrings, toAmount \in AmountStrings,
                          fromDecimals \in DecimalsRange, toDecimals \in DecimalsRange}
        /\ pairRet = NoPair
     \/ /\ effRate = NoCall
        /\ pairRet \in {QuoteInHand(quote, route) :
                          quote \in RatePayloads, route \in RateRoutes}

NextDecimal == CalculateEffectiveRate \/ RateFromQuote

SpecDecimal == InitDecimal /\ [][NextDecimal]_vars

\* ------------------------------------------------- CircuitBreaker: claims
\* Steps of execute(), recognised by what they do to the caller's record.
CallSucceeds(c) == calls[c].pc = "running" /\ calls'[c].pc = "idle" /\ calls'[c].outcome = "ok"
CallFails(c) == calls[c].pc = "running" /\ calls'[c].pc = "idle" /\ calls'[c].outcome = "err"
OperationInvoked(c) == calls[c].pc = "idle" /\ calls'[c].pc = "running"

\* C1: once failureThreshold consecutive calls have failed the breaker is OPEN
\* with the cooldown armed, and no execute call made while it is OPEN and
\* now < nextAttemptTime invokes its operation: such a call ends "rejected".
C1_Step ==
  /\ \A c \in Callers :
       (CallFails(c) /\ consecFailures' >= failureThreshold)
         => (state' = "OPEN" /\ nextAttemptTime' = now + cooldownMs)
  /\ (state = "OPEN" /\ now < nextAttemptTime)
       => \A c \in Callers :
            /\ ~OperationInvoked(c)
            /\ (calls[c].pc = "idle" /\ calls'[c] # calls[c])
                 => calls'[c].outcome = "rejected"
C1_OpenFailsFast == [][C1_Step]_vars

C1_Witness ==
  /\ failureThreshold = 2
  /\ consecFailures >= failureThreshold
  /\ state = "OPEN"
  /\ now < nextAttemptTime
  /\ \E c \in Callers : calls[c].outcome = "rejected"

\* C2 (as stated): while the call that moved the breaker to HALF_OPEN is
\* unsettled, no other call is let through to its operation, so at most one
\* call admitted in HALF_OPEN is running at any time.
C2_SingleTrial ==
  Cardinality({c \in Callers :
                 calls[c].pc = "running" /\ calls[c].admittedIn = "HALF_OPEN"}) <= 1

\* C3: a success in HALF_OPEN closes the breaker exactly when it is the
\* successThreshold-th success since HALF_OPEN was entered (no failure in
\* between); an earlier success leaves it HALF_OPEN with successCount one higher.
\* Apart from a forced reset(), nothing else closes a HALF_OPEN breaker.
C3_Step ==
  /\ \A c \in Callers :
       (CallSucceeds(c) /\ state = "HALF_OPEN")
         => IF trialSuccesses' = successThreshold
            THEN state' = "CLOSED"
            ELSE /\ state' = "HALF_OPEN"
                 /\ successCount' = successCount + 1
                 /\ trialSuccesses' < successThreshold
  /\ (state = "HALF_OPEN" /\ state' = "CLOSED")
       => \/ \E c \in Callers : CallSucceeds(c) /\ trialSuccesses' = successThreshold
          \/ calls' = calls
C3_HalfOpenCloses == [][C3_Step]_vars

C3_Witness ==
  /\ successThreshold = 2
  /\ state = "CLOSED"
  /\ nextAttemptTime > 0
  /\ trialSuccesses = 2
  /\ \E c \in Callers : calls[c].admittedIn = "HALF_OPEN" /\ calls[c].outcome = "ok"

\* C4 (as stated): a failure in HALF_OPEN re-opens the breaker, re-arms the
\* cooldown and leaves both counters at 0.
C4_Original_Step ==
  \A c \in Callers :
    (CallFails(c) /\ state = "HALF_OPEN")
      => /\ state' = "OPEN"
         /\ nextAttemptTime' = now + cooldownMs
         /\ failureCount' = 0
         /\ successCount' = 0
C4_Original == [][C4_Original_Step]_vars

\* C4 (amended): a failure in HALF_OPEN re-opens the breaker, re-arms the
\* cooldown and resets successCount to 0; failureCount is not reset, it is
\* one higher than before.
C4_Step ==
  \A c \in Callers :
    (CallFails(c) /\ state = "HALF_OPEN")
      => /\ state' = "OPEN"
         /\ nextAttemptTime' = now + cooldownMs
         /\ failureCount' = failureCount + 1
         /\ successCount' = 0
C4_HalfOpenFailureReopens == [][C4_Step]_vars

C4_Witness ==
  /\ state = "OPEN"
  /\ nextAttemptTime = now + cooldownMs
  /\ successCount = 0
  /\ failureCount < failureThreshold
  /\ \E c \in Callers : calls[c].admittedIn = "HALF_OPEN" /\ calls[c].outcome = "err"

\* C5: in CLOSED a failure adds one to failureCount and a success sets it to
\* 0; the breaker leaves CLOSED only for OPEN, on the failure that brings
\* failureCount to failureThreshold (arming nextAttemptTime = now + cooldownMs),
\* which is the failureThreshold-th failure since the last success.
C5_Step ==
  /\ \A c \in Callers :
       (CallFails(c) /\ state = "CLOSED")
         => /\ failureCount' = failureCount + 1
            /\ IF failureCount' >= failureThreshold
               THEN state' = "OPEN" /\ nextAttemptTime' = now + cooldownMs
               ELSE state' = "CLOSED"
  /\ \A c \in Callers :
       (CallSucceeds(c) /\ state = "CLOSED")
         => (failureCount' = 0 /\ state' = "CLOSED")
  /\ (state = "CLOSED" /\ state' # "CLOSED")
       => /\ state' = "OPEN"
          /\ \E c \in Callers : CallFails(c)
          /\ failureCount' = failureThreshold
          /\ consecFailures' = failureThreshold
C5_ClosedCounting == [][C5_Step]_vars

C5_Witness ==
  /\ failureThreshold = 2
  /\ state = "OPEN"
  /\ failureCount = failureThreshold
  /\ nextAttemptTime = now + cooldownMs
  /\ \A c \in Callers : calls[c].admittedIn = "CLOSED" /\ calls[c].outcome = "err"

\* -------------------------------------------- RequestDeduplicator: claims
Unsettled(k) == {o \in OpIds : ops[o].key = k /\ ops[o].status = "running"}
DeduplicateCalled(c) == clients[c].pc = "idle" /\ clients'[c].pc = "waiting"

\* C6: a deduplicate call made while an operation for its key is unsettled
\* invokes nothing and is handed that operation, so one key never has two
\* unsettled operations, and every caller resumes with the outcome (ok or err)
\* of the one operation that was in flight when it called.
C6_Inv ==
  /\ \A k \in Keys : Cardinality(Unsettled(k)) <= 1
  /\ \A c \in Clients :
       clients[c].pc = "waiting" =>
         /\ ops[clients[c].op].key = clients[c].key
         /\ ops[clients[c].op].status # "unused"
  /\ \A c \in Clients :
       clients[c].result # "none" => clients[c].result = ops[clients[c].op].status
C6_Step ==
  \A c \in Clients :
    (DeduplicateCalled(c) /\ Unsettled(clients'[c].key) # {})
      => /\ nextOp' = nextOp
         /\ ops' = ops
         /\ clients'[c].op \in Unsettled(clients'[c].key)
C6_OneInvocation == [](C6_Inv) /\ [][C6_Step]_vars

C6_Witness ==
  \E k \in Keys :
    /\ \A c \in Clients :
         clients[c].key = k /\ clients[c].op = 1 /\ clients[c].result = "err"
    /\ nextOp = 2

\* C7: the step that settles an operation, with either outcome, removes its key
\* from the pending map (pendingCount drops by one); the map never holds a
\* settled operation, and a deduplicate call for a key that is not in the map
\* invokes a new operation.
C7_Inv ==
  \A k \in Keys : pending[k] # NoOp => ops[pending[k]].status = "running"
C7_Step ==
  /\ \A o \in OpIds :
       (ops[o].status = "running" /\ ops'[o].status \in {"ok", "err"})
         => /\ pending'[ops[o].key] = NoOp
            /\ pending[ops[o].key] = o => pendingCount' = pendingCount - 1
  /\ \A c \in Clients :
       (DeduplicateCalled(c) /\ pending[clients'[c].key] = NoOp)
         => /\ clients'[c].op = nextOp
            /\ nextOp' = nextOp + 1
            /\ ops[nextOp].status = "unused"
            /\ ops'[nextOp] = [key |-> clients'[c].key, status |-> "running"]
C7_SettledEntryRemoved == [](C7_Inv) /\ [][C7_Step]_vars

C7_Witness ==
  \E k \in Keys :
    /\ ops[1] = [key |-> k, status |-> "err"]
    /\ ops[2] = [key |-> k, status |-> "running"]
    /\ pending[k] = 2
    /\ pendingCount = 1

\* ------------------------------------------------------- TTLCache: claims
GetCalled(k) == ret'.op = "get" /\ ret'.key = k /\ now' = now
SetCalled(k) == ret'.op = "set" /\ ret'.key = k /\ now' = now

\* C8: set(key, v) at time t stores v under key; nothing but a set of key
\* changes that entry, and get, has and stats remove no entry before
\* now > t + ttlMs; get(key) returns v as long as now <= t + ttlMs and returns
\* absent once now > t + ttlMs, and after a get that found the entry expired
\* the key is not in the map.
Fresh(e) == now <= e.setAt + ttlMs
C8_Step ==
  /\ \A k \in CacheKeys :
       SetCalled(k) =>
         /\ k \in KeysOf(cache')
         /\ EntryOf(cache', k).value = ret'.result
         /\ EntryOf(cache', k).setAt = now
  /\ \A k \in KeysOf(cache) \cap KeysOf(cache') :
       EntryOf(cache', k) # EntryOf(cache, k) => SetCalled(k)
  /\ (ret'.op \in {"get", "has", "stats"} /\ now' = now)
       => \A k \in KeysOf(cache) : Fresh(EntryOf(cache, k)) => k \in KeysOf(cache')
  /\ \A k \in KeysOf(cache) :
       GetCalled(k) =>
         IF Fresh(EntryOf(cache, k))
         THEN ret'.result = EntryOf(cache, k).value
         ELSE ret'.result = Absent /\ k \notin KeysOf(cache')
C8_GetUntilExpiry == [][C8_Step]_vars

C8_Witness ==
  /\ ret.op = "get"
  /\ ret.result = Absent
  /\ ret.evicted = ret.key
  /\ ret.key \notin KeysOf(cache)
  /\ cache # << >>

\* C9: the map lists its keys in the order they were added; a set of a new key
\* into a map that already holds maxSize entries removes exactly one entry,
\* the one added longest ago; get and has never reorder the keys (they remove
\* at most the key asked for), so the oldest key present stays the next one
\* to be evicted whatever is read.
C9_Inv == KeySeq(cache) = insertOrder
C9_Step ==
  /\ \A k \in CacheKeys :
       (SetCalled(k) /\ k \notin KeysOf(cache) /\ Len(cache) >= maxSize)
         => /\ KeysOf(cache') = (KeysOf(cache) \ {Head(insertOrder)}) \cup {k}
            /\ Len(cache') = Len(cache)
            /\ KeySeq(cache') = Append(Tail(KeySeq(cache)), k)
  /\ (ret'.op \in {"get", "has"} /\ now' = now)
       => /\ KeySeq(cache') = SelectSeq(KeySeq(cache), LAMBDA j : j \in KeysOf(cache'))
          /\ KeysOf(cache) \ KeysOf(cache') \subseteq {ret'.key}
C10_Inv ==
  \A r \in Requests :
    LET q == reqs[r] IN
    /\ q.attempts <= q.maxRetries + 1
    /\ (q.pc = "done" /\ q.result.status # "rejected")
         => \/ /\ q.result.status = "ok"
               /\ q.attempts >= 1
            \/ /\ q.result = [status |-> "failed", cause |-> q.lastError,
                              after |-> q.maxRetries + 1]
               /\ q.lastError \in Outcomes \ {"ok"}
               /\ q.attempts = q.maxRetries + 1
    /\ q.result.status = "rejected" => q.attempts = 0
C10_AlwaysSettles ==
  /\ [](C10_Inv)
  /\ \A r \in Requests : (reqs[r].pc # "idle") ~> (reqs[r].pc = "done")

C10_Witness ==
  \E r \in Requests :
    /\ reqs[r].pc = "done"
    /\ reqs[r].maxRetries = 2
    /\ reqs[r].attempts = 3
    /\ reqs[r].sleeps = 2
    /\ reqs[r].result = [status |-> "failed", cause |-> "429", after |-> 3]

\* One fetch() is sent for request r in this step.
AttemptSent(r) == reqs'[r].attempts = reqs[r].attempts + 1
\* The limiter admits request r in this step (its job is started).
Admitted(r) ==
  /\ limiterQueue # << >>
  /\ Head(limiterQueue) = r
  /\ limiterReady
  /\ Cardinality(limiterRunning) < maxConcurrent
  /\ limiterQueue' = Tail(limiterQueue)
  /\ ~limiterReady'
NonRetryable == {"4xx", "not-json", "bad-json"}

\* C11: an attempt that ends in HTTP 4xx other than 429, in a content type
\* that is not JSON or in a body that does not parse ends the call: the call
\* is rejected with that error, no sleep is taken and no further attempt made.
C11_NonRetryableFailsAtOnce ==
  \A r \in Requests :
    reqs[r].lastError \in NonRetryable
      => /\ reqs[r].pc = "done"
         /\ reqs[r].result.status = "failed"
         /\ reqs[r].result.cause = reqs[r].lastError

\* C12: every fetch() of a request, the first attempt and each retry, is sent
\* in a step in which the limiter admits that request (a free slot, minTime
\* passed since the last admission).
C12_Step == \A r \in Requests : AttemptSent(r) => Admitted(r)
C12_EveryAttemptAdmitted == [][C12_Step]_vars

\* ---------------------------------------------------- RateLimiter: claims
\* C13: of the acquire() calls that have returned, any run of them that
\* returned within T seconds numbers at most maxTokens + refillRate * T.
C13_RateBound ==
  \A i \in 1..Len(acquired) : \A j \in i..Len(acquired) :
    (j - i + 1) * waitTime <= maxTokens * waitTime + (acquired[j] - acquired[i])

\* C14: an acquire() called at the moment a waiting caller's wait ended, with
\* no other acquire() in between, finds no token and has to wait itself.
AcquireCalled(c) == acquirers[c].pc = "idle" /\ lastRefill' = now /\ drainedAt' = NoTime
                    /\ (acquired' # acquired \/ acquirers'[c].pc = "waiting")
C14_Step ==
  \A c \in Acquirers :
    (AcquireCalled(c) /\ drainedAt = now) => acquirers'[c].pc = "waiting"
C14_NoCreditForWait == [][C14_Step]_vars

\* ------------------------------------------------------ getVolumes: claims
\* The numbers the aggregator's payload can hold for a window.
FiguresFor(window) ==
  CASE window = "24h" -> {1}
    [] window = "7d" -> {2, 3}
    [] window = "30d" -> {4}

\* C20: a getVolumes call returns the empty list when the aggregator gave no
\* usable data (or no window was asked for); otherwise it returns one entry
\* per requested window, in the order requested, each holding the aggregator's
\* daily, weekly or monthly figure for that window.
C20_VolumesAllOrNothing ==
  IF volRet.data = Null
  THEN volRet.result = << >>
  ELSE /\ Len(volRet.result) = Len(volRet.windows)
       /\ \A i \in 1..Len(volRet.windows) :
            /\ volRet.result[i].window = volRet.windows[i]
            /\ volRet.result[i].volumeUsd \in FiguresFor(volRet.windows[i])
            /\ volRet.result[i].volumeUsd = VolumeFor(volRet.data, volRet.windows[i])

C20_Witness ==
  /\ volRet.windows = <<"7d", "24h">>
  /\ volRet.result = <<[window |-> "7d", volumeUsd |-> 3],
                       [window |-> "24h", volumeUsd |-> 1]>>
  /\ volumeCache.fetchedAt < now

\* ----------------------------------------------- getLiquidityDepth: claims
\* a >= b for two amount strings that are equal or both integers
AtLeast(a, b) == a = b \/ (a >= 0 /\ b >= 0 /\ a >= b)

\* C18: an entry pushed by getLiquidityDepth has exactly two thresholds, 50 bps
\* and 100 bps, and its maxAmountIn at 100 bps is at least its maxAmountIn at
\* 50 bps, whatever amounts the provider's quote holds.
C18_ThresholdsOrdered ==
  liqRet.entry # NoEntry =>
    /\ Len(liqRet.entry) = 2
    /\ liqRet.entry[1].slippageBps = 50
    /\ liqRet.entry[2].slippageBps = 100
    /\ AtLeast(liqRet.entry[2].maxAmountIn, liqRet.entry[1].maxAmountIn)

\* ------------------------------------------------- getListedAssets: claims
\* C19: the assets a getListedAssets call returns hold no two entries with the
\* same chainId and lowercased assetId; no asset is of a chain whose fetch
\* failed; and every asset that a chain's token list held, fetched or cached,
\* is returned, whatever happened to the other chains.
C19_AssetsDistinct ==
  LET assets == assetRet.assets IN
  /\ \A i, j \in 1..Len(assets) : i # j => KeyOf(assets[i]) # KeyOf(assets[j])
  /\ \A i \in 1..Len(assets) : assets[i].chainId \notin assetRet.failed
  /\ Seen(assets) = assetRet.expected

C19_Witness ==
  /\ Len(assetRet.assets) = 2
  /\ assetRet.assets[1].chainId # assetRet.assets[2].chainId
  /\ assetRet.failed = {}
  /\ \E ch \in Chains : /\ tokenListCache[ch] # NoTokenList
                        /\ tokenListCache[ch].fetchedAt < now

\* ------------------------------------------------------- getRates: claims
\* The position in the loops of the pair a rate entry was pushed for.
PairOf(e, notionals) == (e.route - 1) * Len(notionals) + e.notional

\* C17: a call with N routes and M notionals returns at most N*M rate
\* entries; every entry is for a requested (route, notional) pair, no two for
\* the same pair; the pairs with an entry are exactly the pairs whose quote
\* was obtained, from the cache or the endpoint, and was well formed (a pair
\* whose quote failed or did not parse has none); when that is every pair the
\* call returns N*M entries.
C17_RatesFromQuotes ==
  LET r == rateRet
      total == r.n * Len(r.notionals)
  IN  /\ Len(r.rates) <= total
      /\ \A i \in 1..Len(r.rates) : /\ r.rates[i].route \in 1..r.n
                                     /\ r.rates[i].notional \in 1..Len(r.notionals)
      /\ \A i, j \in 1..Len(r.rates) : i # j => r.rates[i] # r.rates[j]
      /\ {PairOf(r.rates[i], r.notionals) : i \in 1..Len(r.rates)} = r.obtained
      /\ r.obtained = 1..total => Len(r.rates) = total

\* A call with two routes and two notionals returned three entries: the
\* fourth pair's quote failed, did not parse, or was refused by the breaker.
C17_Witness ==
  /\ rateRet.n = 2
  /\ Len(rateRet.notionals) = 2
  /\ InvalidNotional \notin {rateRet.notionals[j] : j \in 1..2}
  /\ Len(rateRet.rates) = 3

\* ---------------------------------------------------- getSnapshot: claims
\* The parameters have no route or no notional.
EmptyRequest(request) == request.n = 0 \/ request.notionals = << >>
\* This step is a call of getSnapshot with the request.
SnapshotCalled(request) ==
  /\ snap.pc = "idle"
  /\ \/ snap'.pc # "idle" /\ snap'.request = request
     \/ snap'.pc = "idle" /\ snapRet' # snapRet /\ snapRet'.request = request

\* C15: a getSnapshot call without routes or without notionals fails, and
\* the call starts nothing: the rate limiter, the caches, the breaker, the
\* deduplicator, the HTTP limiter and the calls of the four methods are as
\* they were.
C15_Step ==
  \A request \in SnapshotRequests :
    (EmptyRequest(request) /\ SnapshotCalled(request))
      => /\ snapRet'.status = "failed"
         /\ snap'.pc = "idle"
         /\ UNCHANGED <<now, rlVars, cbVars, ddVars, cacheVars, httpVars, volVars,
                        liqVars, assetVars, rateVars>>
C15_EmptyFailsFast == [][C15_Step]_vars

\* A call without notionals failed on a service that had served a snapshot
\* before (a token list is cached).
C15_Witness ==
  /\ snapRet.status = "failed"
  /\ snapRet.request.n = 1
  /\ snapRet.request.notionals = << >>
  /\ \E ch \in Chains : tokenListCache[ch] # NoTokenList

\* C16: a getSnapshot call with routes and notionals never fails and always
\* ends with a snapshot, whatever the sources answer and whether the breaker
\* is open or not; a section whose source gave nothing (no volume figures, no
\* well-formed quote, no liquidity quote, no token) is an empty list.
C16_Inv ==
  /\ snap.pc \in {"idle", "running"}
  /\ snapRet.status = "failed" => EmptyRequest(snapRet.request)
  /\ snapRet.status = "ok" =>
       /\ ~EmptyRequest(snapRet.request)
       /\ ~snapRet.upstream.volumes => snapRet.volumes = << >>
       /\ snapRet.upstream.rates = {} => snapRet.rates = << >>
       /\ snapRet.upstream.liquidity = 0 => snapRet.liquidity = << >>
       /\ snapRet.upstream.listedAssets = {} => snapRet.listedAssets = << >>
IntelligenceRecords ==
  {probe.intelligence[i] : i \in DOMAIN probe.intelligence}
    \cup {intelRet[i] : i \in DOMAIN intelRet}
\* The positions of the quotes that did not fail.
Succeeded(quotes) == {i \in DOMAIN quotes : ~quotes[i].failed}
\* This step sends a quote request for the size the probe loop is at.
ProbeSent == probe'.pc = "fetching" /\ probe.pc # "fetching"

\* C21: the sizes of a route are asked for in the order of the list, which
\* is ascending: a request for a size is sent only when every smaller size
\* has a quote and none of them failed; and the quotes of a route's record
\* are those of the first sizes, in order, only the last of them failed.
C21_Step ==
  /\ \A i, j \in DOMAIN probeSizesUsd : i < j => probeSizesUsd[i] < probeSizesUsd[j]
  /\ ProbeSent =>
       /\ Len(probe'.quotes) = probe'.size - 1
       /\ \A i \in DOMAIN probe'.quotes :
            /\ probe'.quotes[i].amountUsd = probeSizesUsd[i]
            /\ ~probe'.quotes[i].failed
  /\ \A i \in DOMAIN probe'.intelligence :
       LET quotes == probe'.intelligence[i].quotes
       IN  \A k \in DOMAIN quotes :
             /\ k <= Len(probeSizesUsd)
             /\ quotes[k].amountUsd = probeSizesUsd[k]
             /\ quotes[k].failed => k = Len(quotes)
C21_StopsAtFirstFailure == [][C21_Step]_vars

\* The probes of a route stopped at 10k: 1k and 5k had a quote, 10k failed.
C21_Witness ==
  /\ intelRet # << >>
  /\ Len(intelRet[1].quotes) = 3
  /\ intelRet[1].quotes[3].failed

\* C22: maxCapacityUsd of a record is the largest size whose probe
\* succeeded, null when no probe succeeded, and 5,000,000 when all did.
C22_MaxCapacity ==
  \A r \in IntelligenceRecords :
    LET ok == Succeeded(r.quotes)
    IN  /\ ok = {} => r.maxCapacityUsd = Null
        /\ ok # {} =>
             \E i \in ok : /\ r.maxCapacityUsd = Num(probeSizesUsd[i])
                            /\ \A j \in ok : probeSizesUsd[j] <= probeSizesUsd[i]
        /\ ok = DOMAIN probeSizesUsd => r.maxCapacityUsd = Num(5000000)

\* Every probe of a route succeeded.
C22_Witness ==
  \E r \in IntelligenceRecords :
    /\ Succeeded(r.quotes) = DOMAIN probeSizesUsd
    /\ r.maxCapacityUsd = Num(5000000)

\* C23: with fewer than two successful probes feeEfficiencyScore and
\* optimalRangeUsd are null; with two or more optimalRangeUsd is not null
\* and min <= max <= maxCapacityUsd.
C23_OptimalRange ==
  \A r \in IntelligenceRecords :
    IF Cardinality(Succeeded(r.quotes)) < 2
    THEN r.feeEfficiencyScore = Null /\ r.optimalRangeUsd = Null
    ELSE /\ r.optimalRangeUsd # Null
         /\ r.optimalRangeUsd.min <= r.optimalRangeUsd.max
         /\ Geq(r.maxCapacityUsd, Num(r.optimalRangeUsd.max))

\* C24: at1k is 0 when the 1k probe succeeded and null otherwise; at10k and
\* at100k are null when the 1k probe or the probe of their size did not
\* succeed, and not null otherwise.
C24_PriceImpact ==
  \A r \in IntelligenceRecords :
    LET ok == Succeeded(r.quotes)
    IN  /\ r.priceImpactBps.at1k = (IF 1 \in ok THEN Num(0) ELSE Null)
        /\ r.priceImpactBps.at10k = Null <=> ~(1 \in ok /\ 3 \in ok)
        /\ r.priceImpactBps.at100k = Null <=> ~(1 \in ok /\ 5 \in ok)

\* A record whose 10k impact is a number and whose 100k impact is null: the
\* probes went up to 10k at a lower rate than at 1k and failed before 100k.
C24_Witness ==
  \E r \in IntelligenceRecords :
    /\ r.priceImpactBps.at1k = Num(0)
    /\ r.priceImpactBps.at10k = Num(5000)
    /\ r.priceImpactBps.at100k = Null

\* ---------------------------------------------- getSnapshot, intelligence
\* C25: a snapshot has the key routeIntelligence exactly when
\* includeIntelligence was set, and then its list has one record per route,
\* in the order of the routes; every route was probed, and a route none of
\* whose probes succeeded has maxCapacityUsd, optimalRangeUsd and
\* feeEfficiencyScore null.
C25_OneRecordPerRoute ==
  snapRet.status = "ok" =>
    /\ ("routeIntelligence" \in DOMAIN snapRet) <=> snapRet.request.includeIntelligence
    /\ "routeIntelligence" \in DOMAIN snapRet =>
         /\ Len(snapRet.routeIntelligence) = snapRet.request.n
         /\ \A i \in DOMAIN snapRet.routeIntelligence :
              LET r == snapRet.routeIntelligence[i]
              IN  /\ r.route = i
                  /\ r.quotes # << >>
                  /\ Succeeded(r.quotes) = {} =>
                       /\ r.maxCapacityUsd = Null
                       /\ r.optimalRangeUsd = Null
                       /\ r.feeEfficiencyScore = Null

\* A snapshot of two routes: no probe of the first route succeeded, and the
\* second route was analysed all the same.
C25_Witness ==
  /\ snapRet.status = "ok"
  /\ "routeIntelligence" \in DOMAIN snapRet
  /\ Len(snapRet.routeIntelligence) = 2
  /\ snapRet.routeIntelligence[1].maxCapacityUsd = Null
  /\ snapRet.routeIntelligence[2].maxCapacityUsd = Num(5000)

\* This step sends a quote request of getLiquidityDepth.
LiquiditySent ==
  \E c \in LiqCalls : liqCalls'[c].pc = "fetching" /\ liqCalls[c].pc # "fetching"
\* This step invokes a quote operation of getRates.
RateQuoteSent == \E o \in OpIds : ops'[o].status = "running" /\ ops[o].status # "running"

\* C26: while the breaker is OPEN and its cooldown has not elapsed, no quote
\* request is sent, neither by getRates nor by getLiquidityDepth nor by a
\* probe.
C26_Step == (RateQuoteSent \/ LiquiditySent \/ ProbeSent) => ~CircuitOpen
C26_NoQuoteCallWhileOpen == [][C26_Step]_vars

\* No call of the four methods is in progress and no quote operation of
\* getRates is in flight.
BaseFetchesDone ==
  /\ \A c \in VolCalls : volCalls[c].pc = "idle"
  /\ \A c \in RateCalls : rateCalls[c].pc = "idle"
  /\ \A c \in LiqCalls : liqCalls[c].pc = "idle"
  /\ \A c \in AssetCalls : assetCalls[c].pc = "idle"
  /\ \A o \in OpIds : ops[o].status # "running"

\* C30: while getRouteIntelligence is in progress (and so whenever a probe
\* request is sent) the snapshot has been asked for with includeIntelligence
\* and its four base fetches have completed.
C30_ProbesAfterBase ==
  probe.pc # "idle" =>
    /\ snap.pc = "probing"
    /\ snap.request.includeIntelligence
    /\ BaseFetchesDone

\* A probe's request is in flight after a snapshot's base fetches, which
\* gave a rate and a liquidity entry.
C30_Witness ==
  /\ probe.pc = "fetching"
  /\ snap.pc = "probing"
  /\ rateRet.rates # << >>
  /\ liqList.liquidity # << >>

\* ---- DecimalUtils.calculateEffectiveRate and the rates it gives
\* A calculateEffectiveRate call that has returned or thrown.
Calculated == effRate.outcome.kind \in {"number", "error"}
\* A string of digits: a non-negative integer.
DigitsOnly(s) == s # << >> /\ \A i \in DOMAIN s : IsDigit(s[i])
\* A string with a minus sign in front of digits.
Negative(s) == IsNumeric(s) /\ s[1] = "-"
\* Non-negative integer strings and non-negative decimals.
ValidArguments ==
  /\ DigitsOnly(effRate.fromAmount)
  /\ DigitsOnly(effRate.toAmount)
  /\ effRate.fromDecimals >= 0
  /\ effRate.toDecimals >= 0
\* toAmount * 10^fromDecimals / (fromAmount * 10^toDecimals)
NormalizedQuotient ==
  Ratio(DigitsValue(effRate.toAmount) * Pow10(effRate.fromDecimals),
        DigitsValue(effRate.fromAmount) * Pow10(effRate.toDecimals))

C28_RejectsBadInput ==
  (/\ Calculated
   /\ \/ ~IsNumeric(effRate.fromAmount)
      \/ ~IsNumeric(effRate.toAmount)
      \/ Negative(effRate.fromAmount)
      \/ Negative(effRate.toAmount)
      \/ effRate.fromDecimals < 0
      \/ effRate.toDecimals < 0)
    => effRate.outcome.kind = "error"

\* C29: the entry that an iteration of getRates pushes has effectiveRate > 0,
\* whatever the quote payload.
C29_PositiveRates ==
  pairRet.result.pushed =>
    /\ pairRet.result.entry.effectiveRate.value.den > 0
    /\ pairRet.result.entry.effectiveRate.value.num > 0

\* ---- CircuitBreaker: invariants, rejected calls, overlapping calls
\* C31: in every state reached by execute calls, their settlements and
\* reset, a CLOSED breaker has failureCount < failureThreshold, successCount
\* is positive only in HALF_OPEN, and successCount < successThreshold.
C31_BreakerInvariants ==
  /\ state = "CLOSED" => failureCount < failureThreshold
  /\ successCount > 0 => state = "HALF_OPEN"
  /\ successCount < successThreshold

\* The breaker is HALF_OPEN with one success counted while a call is running.
C31_Witness ==
  /\ state = "HALF_OPEN"
  /\ successCount = 1
  /\ \E c \in Callers : calls[c].pc = "running"

\* The step is an execute call that the OPEN breaker rejects.
Rejects(c) ==
  /\ calls[c].pc = "idle"
  /\ calls'[c] # calls[c]
  /\ calls'[c].outcome = "rejected"
  /\ state = "OPEN"
  /\ now < nextAttemptTime

\* C32: a call rejected because the breaker is OPEN leaves state,
\* failureCount, successCount and nextAttemptTime as they were.
C32_Step ==
  (\E c \in Callers : Rejects(c)) =>
    UNCHANGED <<state, failureCount, successCount, nextAttemptTime>>
C32_RejectionChangesNothing == [][C32_Step]_vars

\* A call has been rejected by a breaker that failures have opened, and the
\* cooldown has not been extended.
C32_Witness ==
  /\ state = "OPEN"
  /\ now > 0
  /\ now < nextAttemptTime
  /\ failureCount = failureThreshold
  /\ \E c \in Callers : calls[c].outcome = "rejected"

\* C33: the success of a call that was admitted while the breaker was CLOSED
\* and that settles while the breaker is HALF_OPEN does not increment
\* successCount and does not close the breaker.
C33_Step ==
  \A c \in Callers :
    (/\ calls[c].pc = "running"
     /\ calls[c].admittedIn = "CLOSED"
     /\ calls'[c].pc = "idle"
     /\ calls'[c].outcome = "ok"
     /\ state = "HALF_OPEN")
      => (successCount' = successCount /\ state' = "HALF_OPEN")
C33_OnlyTrialCallsCount == [][C33_Step]_vars

\* ---- RequestDeduplicator with clear()
\* The operations of key k that have been invoked and have not settled.
RunningFor(k) == {o \in OpIds : ops[o].key = k /\ ops[o].status = "running"}

\* C34: with deduplicate, clear and settlements in any order, a key has at
\* most one unsettled operation at any time, and the settlement of an
\* operation does not remove the pending entry of another operation.
C34_Inv == \A k \in Keys : Cardinality(RunningFor(k)) <= 1
C34_Step ==
  \A o \in OpIds :
    (/\ ops[o].status = "running"
     /\ ops'[o].status \in {"ok", "err"}
     /\ pending[ops[o].key] \notin {NoOp, o})
      => pending'[ops[o].key] = pending[ops[o].key]
C34_OneOperationPerKey == [](C34_Inv) /\ [][C34_Step]_vars

\* ---- TTLCache: size
\* The entries of the map that have not expired.
Live(entries) == {i \in 1..Len(entries) : ~Expired(entries[i])}

\* C35: the map never holds more than maxSize entries, and stats() reports
\* the number of entries that have not expired.
C35_Inv == Len(cache) <= maxSize
C35_Step ==
  (ret'.op = "stats" /\ now' = now) =>
    /\ ret'.result = Cardinality(Live(cache))
    /\ ret'.result = Len(cache')
C35_SizeBounded == [](C35_Inv) /\ [][C35_Step]_vars

\* stats() has reported 2 on a cache that is full.
C35_Witness ==
  /\ maxSize = 2
  /\ Len(cache) = maxSize
  /\ ret.op = "stats"
  /\ ret.result = 2
  /\ now > 0

\* C36: set(key, v) for a key that the map holds leaves every other key that
\* get would have returned before the call in the map, with its entry.
C36_Step ==
  \A k \in KeysOf(cache) :
    SetCalled(k) =>
      \A j \in KeysOf(cache) \ {k} :
        GetResult(cache, j) # Absent
          => /\ j \in KeysOf(cache')
             /\ EntryOf(cache', j) = EntryOf(cache, j)
C36_SetKeepsOtherKeys == [][C36_Step]_vars

\* ---- getRates: the quote cache
\* The step writes key k's cache entry.
QuoteCached(k) ==
  /\ k \in KeysOf(cache')
  /\ k \in KeysOf(cache) => EntryOf(cache', k) # EntryOf(cache, k)
\* The step makes call c await a quote through the breaker and the
\* deduplicator.
QuoteRequested(c) == rateCalls[c].pc # "awaiting" /\ rateCalls'[c].pc = "awaiting"
\* The step is a getRates call that returns without awaiting anything.
ReturnsAtOnce(c) ==
  /\ \A d \in RateCalls : rateCalls[d].pc = "idle" /\ rateCalls'[d].pc = "idle"
  /\ now' = now
  /\ rateRet'.n > 0

\* C37 (cache writes): an entry of the quote cache is written only by the
\* continuation of a quote request that succeeded, with the quote it gave.
C37_WritesStep ==
  \A k \in Keys :
    QuoteCached(k) =>
      \E c \in RateCalls : /\ rateCalls[c].pc = "resumed"
                            /\ rateCalls[c].quote # "failed"
                            /\ NotionalOf(rateCalls[c]) = k
                            /\ EntryOf(cache', k).value = rateCalls[c].quote
                            /\ EntryOf(cache', k).setAt = now

\* C37 (cache hits): a quote is requested only for a pair whose lookup found
\* no unexpired entry, and a call that every lookup answers leaves the
\* breaker and the pending map as they were.
C37_HitsStep ==
  \A c \in RateCalls :
    /\ QuoteRequested(c) =>
         /\ ret'.op = "get"
         /\ ret'.key = NotionalOf(rateCalls'[c])
         /\ ret'.key \notin KeysOf(cache')
    /\ ReturnsAtOnce(c) =>
         UNCHANGED <<state, failureCount, successCount, nextAttemptTime, pending, ops>>

\* C37: a quote is cached only after its fetch succeeded, and a lookup that
\* finds an unexpired entry sends no request and changes neither the breaker
\* nor the pending map.
C37_CachedQuotePath == [][C37_WritesStep /\ C37_HitsStep]_vars

\* ---- getRates: the breaker around the deduplicator
\* The step is the continuation of call c's execute() after the operation it
\* awaited was rejected.
FailureCounted(c) ==
  /\ rateCalls[c].pc = "awaiting"
  /\ rateCalls'[c].pc = "resumed"
  /\ rateCalls'[c].quote = "failed"
\* Call d awaited the same operation as call c and its execute() has already
\* run onFailure for it.
CountedBefore(c, d) ==
  /\ d # c
  /\ rateCalls[d].pc = "resumed"
  /\ rateCalls[d].quote = "failed"
  /\ rateCalls[d].op = rateCalls[c].op

\* C38: when concurrent getRates calls share one deduplicated quote
\* operation and it fails, failureCount is incremented for it once: the
\* continuation of a second caller does not increment it again.
C38_Step ==
  \A c \in RateCalls :
    (FailureCounted(c) /\ \E d \in RateCalls : CountedBefore(c, d))
      => failureCount' = failureCount
C38_OneFailurePerOperation == [][C38_Step]_vars

\* C39: fetchDefiLlamaVolumes caches a null result when the aggregator answers
\* with a status that is not 2xx or with a payload that cannot be used, and
\* caches nothing when the request throws a network or timeout error: a fetch
\* that ends in a bad status or an unusable payload writes [data: null,
\* fetchedAt: now] and gives no volumes; one that ends in a network error
\* leaves the cache as it was; while a null entry younger than 10 minutes is
\* the cache's content a call returns no volumes at once, without leaving for
\* the rate limiter or the aggregator; and a call that finds no fresh entry
\* goes to the aggregator.
VolumesSettled(c) == volCalls[c].pc = "fetching" /\ volCalls'[c].pc = "idle"
UnusablePayload(r) ==
  r.fetched \in {"bad-json", "not-object"} \/ (r.fetched = "json" /\ r.data = Null)
NullCached ==
  /\ volumeCache # NoVolumeCache
  /\ volumeCache.data = Null
  /\ now - volumeCache.fetchedAt < VOLUME_CACHE_TTL
C39_Step ==
  \A c \in VolCalls :
    /\ VolumesSettled(c) /\ (volRet'.fetched = "http-error" \/ UnusablePayload(volRet'))
         => /\ volumeCache' = [data |-> Null, fetchedAt |-> now]
            /\ volRet'.result = << >>
    /\ VolumesSettled(c) /\ volRet'.fetched = "network"
         => volumeCache' = volumeCache /\ volRet'.result = << >>
    /\ volCalls[c].pc = "idle" /\ NullCached
         => /\ volCalls'[c].pc = "idle"
            /\ volRet' # volRet => volRet'.fetched = "cache" /\ volRet'.result = << >>
    /\ volCalls[c].pc = "idle" /\ volCalls'[c] # volCalls[c]
         => ~VolumesFresh /\ volCalls'[c].pc \in {"acquiring", "fetching"}
C39_NullCachedForTtl == [][C39_Step]_vars
\* The same with a 2xx body that is not JSON left out of the unusable payloads.
C39_ParsedPayloads ==
  [][C39_Step \/ ((\E c \in VolCalls : VolumesSettled(c)) /\ volRet'.fetched = "bad-json")]_vars

\* C40: fetchQuoteWithRetry returns null on every failure and a payload with
\* an estimation otherwise; it sends at most maxRetries + 1 requests, each
\* after one rateLimiter.acquire() of its own; it goes on to a further
\* attempt only after a 5xx, a 429, a timeout or a network error, and returns
\* null at once, without a further attempt, after another status that is not
\* ok, a response without estimation or another thrown error.
QuoteReturns(c) ==
  /\ liqCalls[c].pc = "fetching"
  /\ liqCalls'[c] # liqCalls[c]
  /\ liqCalls'[c].pc # "sleeping"
QuoteRetries(c) == liqCalls[c].pc = "fetching" /\ liqCalls'[c].pc = "sleeping"
C40_Inv ==
  \A c \in LiqCalls :
    LET a == liqCalls[c] IN
    /\ a.sent <= QuoteMaxRetries + 1
    /\ a.pc = "acquiring" => a.acquires = a.sent + 1
    /\ a.pc \in {"fetching", "sleeping"} => a.acquires = a.sent /\ a.sent >= 1
C40_Step ==
  \A c \in LiqCalls :
    LET a == liqCalls[c] IN
    /\ QuoteReturns(c)
         => /\ liqRet'.quote = Null <=> liqRet'.last # "payload"
            /\ liqRet'.last \notin {"5xx", "429", "timeout"} /\ a.last = "none"
                 => a.sent = 1
            /\ liqRet'.last \in {"5xx", "429", "timeout"} => a.sent = QuoteMaxRetries + 1
    /\ QuoteRetries(c)
         => /\ liqCalls'[c].last \in {"5xx", "429", "timeout"}
            /\ a.sent <= QuoteMaxRetries
    /\ liqCalls'[c].sent # a.sent /\ liqCalls'[c].sent # 0
         => /\ liqCalls'[c].pc = "fetching"
            /\ liqCalls'[c].acquires = liqCalls'[c].sent
            /\ \/ liqCalls'[c].sent = a.sent + 1 /\ a.pc \in {"acquiring", "sleeping"}
               \/ liqCalls'[c].sent = 1 /\ a.pc \in {"idle", "fetching"}
C40_BoundedRetries == [](C40_Inv) /\ [][C40_Step]_vars
\* All four attempts of one fetchQuoteWithRetry call were made, after sleeps of
\* 1, 2 and 4 seconds, and null came back.
C40_Witness ==
  /\ liqRet.last \in {"5xx", "429", "timeout"}
  /\ liqRet.quote = Null
  /\ now >= 7000
  /\ liqList.quoted = 0
====
